---- MODULE Spec2Model ----
(***************************************************************************)
(* Model of the distributed ingestion pipeline of zduanx/jh:               *)
(*   - the run coordinator (workers/ingestion_worker.py: process_run,      *)
(*     run_initialization_phase, run_ingestion_phase, handler),            *)
(*   - the abort endpoint (api/ingestion_routes.py: abort_ingestion),      *)
(*   - the crawl worker (workers/crawler_worker.py),                       *)
(*   - the extract worker (workers/extractor_worker.py),                   *)
(*   - the run finalizer (db/run_service.py).                              *)
(* Every database statement that commits is one atomic step; values an     *)
(* ORM object holds between two statements are kept in the worker's local  *)
(* record (a stale snapshot of the row).                                   *)
(***************************************************************************)
EXTENDS Integers, Sequences, FiniteSets, TLC

\* ------------------------------------------------------------------------
\* Bounds of the model
\* ------------------------------------------------------------------------
MaxJobs == 2
MaxCrawlWorkers == 2
MaxExtractWorkers == 2
MaxExtractMsgs == 2
MaxAborts == 1
MaxRuns == 3
HashBits == 3
MaxThreshold == 4
MaxTitleLen == 2
MaxTerms == 2
MaxContentLen == 5

\* ------------------------------------------------------------------------
\* Program constants
\* ------------------------------------------------------------------------
CIRCUIT_BREAKER_THRESHOLD == 5
SIMILAR_THRESHOLD == 3
MOCK_BATCHES == 10

PENDING == "pending"
INITIALIZING == "initializing"
INGESTING == "ingesting"
FINISHED == "finished"
ERROR == "error"
ABORTED == "aborted"
TERMINAL == {FINISHED, ERROR, ABORTED}

READY == "ready"
SKIPPED == "skipped"
EXPIRED == "expired"

\* SQL NULL / Python None for the nullable integer columns of a run
None == -1
\* SQL NULL for jobs.simhash (a fingerprint is the set of its 1-bits, 0..63)
NoHash == {-1}

RunId == 1
PrevRunId == 0

Companies == {"A", "B"}
Jobs == 1..MaxJobs
CrawlWorkers == 1..MaxCrawlWorkers
ExtractWorkers == 1..MaxExtractWorkers

\* the company part of a posting's unique key (user, company, external_id)
CompanyOf(j) == IF j % 2 = 1 THEN "A" ELSE "B"
JobsOf(c) == {j \in Jobs : CompanyOf(j) = c}

\* fingerprints the fetched pages can have: at distance 3 and 4 from the
\* fingerprint {} of a posting stored earlier, and 1 from each other
Fingerprints == {{0, 1, 2}, {0, 1, 2, 3}}

Min(a, b) == IF a < b THEN a ELSE b

RECURSIVE SetToSeq(_)
SetToSeq(S) ==
  IF S = {} THEN <<>>
  ELSE LET m == CHOOSE x \in S : \A y \in S : x <= y
       IN  <<m>> \o SetToSeq(S \ {m})

SeqToSet(s) == {s[i] : i \in 1..Len(s)}

\* ------------------------------------------------------------------------
\* Change detector (utils/simhash.py)
\* ------------------------------------------------------------------------
hamming_distance(h1, h2) == Cardinality((h1 \ h2) \cup (h2 \ h1))

\* is_similar with < in place of <=
is_similar_lt(h1, h2, threshold) ==
  IF h1 = NoHash \/ h2 = NoHash THEN FALSE
  ELSE hamming_distance(h1, h2) < threshold

is_similar(h1, h2, threshold) ==
  IF h1 = NoHash \/ h2 = NoHash THEN FALSE
  ELSE hamming_distance(h1, h2) <= threshold

\* the fingerprint of a content (utils/simhash.py), on HashBits bits in
\* place of 64. A content is the sequence of its characters; a token hash
\* and a fingerprint are integers. The digest function is an argument: md5
\* maps every token to the integer of its first HashBits bits.
WordChars == {"a", "A", "b"}

\* str.lower on a content
lower_text(s) == [i \in 1..Len(s) |-> IF s[i] = "A" THEN "a" ELSE s[i]]

\* re.findall(r'\b\w+\b', text): the maximal runs of word characters
RECURSIVE findall_words(_, _, _)
findall_words(s, cur, acc) ==
  IF s = <<>> THEN (IF cur = <<>> THEN acc ELSE Append(acc, cur))
  ELSE IF Head(s) \in WordChars
    THEN findall_words(Tail(s), Append(cur, Head(s)), acc)
  ELSE findall_words(Tail(s), <<>>,
                     IF cur = <<>> THEN acc ELSE Append(acc, cur))

tokenize(text) == findall_words(lower_text(text), <<>>, <<>>)

hash_token(md5, token) == md5[token]

\* token_hash & (1 << i), as a truth value
bit_set(h, i) == (h \div (2 ^ i)) % 2 = 1

\* counter with every distinct token counted once
counter_distinct(md5, tokens, i) ==
  Cardinality({t \in SeqToSet(tokens) : bit_set(hash_token(md5, t), i)})
    - Cardinality({t \in SeqToSet(tokens) : ~bit_set(hash_token(md5, t), i)})

\* the counter of bit position i after the loop over the tokens
counter(md5, tokens, i) ==
  Cardinality({k \in 1..Len(tokens) : bit_set(hash_token(md5, tokens[k]), i)})
    - Cardinality({k \in 1..Len(tokens) :
                     ~bit_set(hash_token(md5, tokens[k]), i)})

\* simhash |= (1 << i) for every position below n whose counter is positive
RECURSIVE build_hash(_, _, _)
build_hash(md5, tokens, n) ==
  IF n = 0 THEN 0
  ELSE build_hash(md5, tokens, n - 1)
         + (IF counter(md5, tokens, n - 1) > 0 THEN 2 ^ (n - 1) ELSE 0)

\* compute_simhash without the conversion to a signed value
compute_simhash_unsigned(md5, content) ==
  LET tokens == tokenize(content)
  IN  IF content = <<>> THEN 0
      ELSE IF tokens = <<>> THEN 0
      ELSE build_hash(md5, tokens, HashBits)

compute_simhash(md5, content) ==
  LET tokens == tokenize(content)
      simhash == build_hash(md5, tokens, HashBits)
  IN  IF content = <<>> THEN 0
      ELSE IF tokens = <<>> THEN 0
      ELSE IF simhash >= 2 ^ (HashBits - 1) THEN simhash - 2 ^ HashBits
      ELSE simhash

\* ------------------------------------------------------------------------
\* hamming_distance on Python integers (utils/simhash.py), a fingerprint
\* having HashBits bits in place of 64.  Python's ^ and & act on the two's
\* complement form of an integer of any sign, whose bit i is bit_set.
\* ------------------------------------------------------------------------
\* the signed form of a fingerprint, as compute_simhash returns it
to_signed(h) == IF h >= 2 ^ (HashBits - 1) THEN h - 2 ^ HashBits ELSE h

\* the bits i.. of a ^ b below bit HashBits + 1
RECURSIVE xor_bits(_, _, _)
xor_bits(a, b, i) ==
  IF i > HashBits THEN 0
  ELSE (IF bit_set(a, i) # bit_set(b, i) THEN 2 ^ i ELSE 0)
         + xor_bits(a, b, i + 1)

\* a ^ b for integers of HashBits + 1 bits and a sign: negative when
\* exactly one operand is
py_xor(a, b) ==
  xor_bits(a, b, 0) - (IF (a < 0) # (b < 0) THEN 2 ^ (HashBits + 1) ELSE 0)

\* x & ((1 << 64) - 1)
mask_bits(x) == x % (2 ^ HashBits)

\* bin(x).count('1'): the ones in the digits of the magnitude of x
RECURSIVE bin_count_ones(_)
bin_count_ones(x) ==
  IF x < 0 THEN bin_count_ones(0 - x)
  ELSE IF x = 0 THEN 0
  ELSE (x % 2) + bin_count_ones(x \div 2)

\* hamming_distance without the mask
hamming_distance_unmasked(hash1, hash2) ==
  bin_count_ones(py_xor(hash1, hash2))

\* hamming_distance as the code computes it
hamming_distance_int(hash1, hash2) ==
  bin_count_ones(mask_bits(py_xor(hash1, hash2)))

\* ------------------------------------------------------------------------
\* Title filter (extractors/base_extractor.py)
\* A string is the sequence of its characters. An optional list of terms
\* is a record: null for None, terms for the list.
\* ------------------------------------------------------------------------
Alphabet == {"a", "A", "b"}

\* str.lower, character by character
lower(s) == [i \in 1..Len(s) |-> IF s[i] = "A" THEN "a" ELSE s[i]]

\* the operator `in` on two strings: t occurs in s as a contiguous run
str_in(t, s) ==
  \E i \in 0..(Len(s) - Len(t)) : SubSeq(s, i + 1, i + Len(t)) = t

\* the decision filter_by_title takes for one title of its list
title_result(title, include_terms, exclude_terms) ==
  LET excl == IF exclude_terms.null THEN <<>> ELSE exclude_terms.terms
      title_lower == lower(title)
      excluded == \E k \in 1..Len(excl) : str_in(lower(excl[k]), title_lower)
      included == \E k \in 1..Len(include_terms.terms) :
                    str_in(lower(include_terms.terms[k]), title_lower)
  IN  IF title = <<>> THEN FALSE
      ELSE IF excluded THEN FALSE
      ELSE IF ~include_terms.null THEN included
      ELSE TRUE

\* filter_by_title with the include list checked before the exclude list
filter_by_title_include_first(titles, include_terms, exclude_terms) ==
  [n \in 1..Len(titles) |->
     LET excl == IF exclude_terms.null THEN <<>> ELSE exclude_terms.terms
         title_lower == lower(titles[n])
     IN  IF titles[n] = <<>> THEN FALSE
         ELSE IF ~include_terms.null
                 /\ \E k \in 1..Len(include_terms.terms) :
                      str_in(lower(include_terms.terms[k]), title_lower)
           THEN TRUE
         ELSE IF \E k \in 1..Len(excl) : str_in(lower(excl[k]), title_lower)
           THEN FALSE
         ELSE include_terms.null]

filter_by_title(titles, include_terms, exclude_terms) ==
  [n \in 1..Len(titles) |->
     title_result(titles[n], include_terms, exclude_terms)]

\* ------------------------------------------------------------------------
\* State
\* ------------------------------------------------------------------------
VARIABLES
  run,       \* the ingestion_runs row of run RunId
  jobs,      \* the jobs table: one row (or none) per unique key
  enabled,   \* the owner's enabled company settings
  iw,        \* the ingestion worker invocation (process_run and handler)
  ab,        \* the abort request in progress
  aborts,    \* number of abort requests issued so far
  cq,        \* crawl queue: per company, the crawl instructions in order
  cw,        \* crawl worker invocations
  ew,        \* extract worker invocations
  exmsgs,    \* number of extract instructions delivered so far
  hist,      \* history: fetch attempts, failed instructions per company,
             \* try_finalize_run calls that returned True (wins) and False
             \* (losses), messages dropped for an aborted run, what the
             \* first delivery of a redelivered crawl instruction met,
             \* where the coordinator stood when an abort was committed
  db,        \* the jobs table row by row over successive runs: the rows
             \* with their surrogate ids, the id of the latest run, the
             \* next value of the jobs id sequence
  call,      \* a call of a pure function: its arguments, whether it has
             \* returned, its result
  earlier    \* the owner's earlier run: its ingestion_runs row, and the
             \* crawl and extract instructions of it still in the queues

vars == <<run, jobs, enabled, iw, ab, aborts, cq, cw, ew, exmsgs, hist, db,
          call, earlier>>

\* ------------------------------------------------------------------------
\* Error texts. A text is kept as its content with the message of every
\* exception abbreviated by the exception's name (txt), and its length in
\* characters with the messages in full (len).
\* ------------------------------------------------------------------------
ERROR_TEXT_LIMIT == 500
MAX_CRAWL_RETRIES == 3

\* None where a text is expected
NoText == [txt |-> "None", len |-> 0]

\* a string literal of the code
literal(s) == [txt |-> s, len |-> Len(s)]

\* the slice s[:n]
str_slice(s, n) == [s EXCEPT !.len = Min(s.len, n)]

\* the f-string made of a literal and str(e)
str_format(s, e) == [txt |-> s \o e.txt, len |-> Len(s) + e.len]

\* an exception with a one-character message
SomeException == [txt |-> "e", len |-> 1]

NoJob == [exists |-> FALSE, run_id |-> PrevRunId, status |-> EXPIRED,
          simhash |-> NoHash, raw_s3_url |-> FALSE, description |-> FALSE,
          error_message |-> NoText]

\* a posting stored and parsed by an earlier run
PrevJob == [exists |-> TRUE, run_id |-> PrevRunId, status |-> READY,
            simhash |-> {}, raw_s3_url |-> TRUE, description |-> TRUE,
            error_message |-> NoText]

NewRun == [status |-> PENDING, total_jobs |-> 0,
           jobs_ready |-> None, jobs_skipped |-> None,
           jobs_expired |-> None, jobs_failed |-> None,
           error_message |-> FALSE, finished_at |-> FALSE,
           run_metadata |-> [c \in Companies |-> 0]]

\* the row of the owner's earlier run, which has finished
PrevRun == [NewRun EXCEPT !.status = FINISHED, !.finished_at = TRUE,
                          !.jobs_ready = 0, !.jobs_skipped = 0,
                          !.jobs_expired = 0, !.jobs_failed = 0]

\* the earlier run with no instruction left in the queues
NoEarlier == [run |-> PrevRun, crawl |-> {}, extract |-> {}]

\* what the discovery call of a company meets: an exception (a timeout or
\* another one) or the list of the company's postings; "unrun" before the
\* call
NoOutcome == [exc |-> "unrun", jobs |-> {}]
Outcomes(c) ==
  {[exc |-> "none", jobs |-> J] : J \in SUBSET JobsOf(c)}
    \cup {[exc |-> e, jobs |-> {}] : e \in {"timeout", "other"}}

\* a company's entry in InitializationResult.companies, before the phase
NoResult == [status |-> "none", jobs |-> {}, error_message |-> ""]

IwStart == [pc |-> "start", status |-> PENDING, disc |-> {}, ok |-> {},
            total |-> 0, expired |-> 0, job_ids |-> <<>>, batch |-> 0,
            ready |-> 0, skipped |-> 0, failed |-> 0, result |-> "none",
            outs |-> [c \in Companies |-> NoOutcome],
            companies |-> [c \in Companies |-> NoResult]]

AbIdle == [pc |-> "idle", success |-> "none"]
CwIdle == [pc |-> "idle", job |-> 0, meta |-> [c \in Companies |-> 0],
           calls |-> 0, saves |-> 0]
EwIdle == [pc |-> "idle", job |-> 0, ready |-> 0, skipped |-> 0,
           failed |-> 0, expired |-> 0]
IwDone(result) == [IwStart EXCEPT !.pc = "done", !.result = result]
\* process_run has committed status ingesting and enters the ingestion phase
IwIngesting ==
  [IwStart EXCEPT !.pc = "ing_start", !.ok = Companies, !.disc = Jobs,
                  !.outs = [c \in Companies |->
                              [exc |-> "none", jobs |-> JobsOf(c)]],
                  !.companies = [c \in Companies |->
                                   [status |-> "success", jobs |-> JobsOf(c),
                                    error_message |-> ""]]]
\* what the processing of a crawl instruction meets outside the database:
\* for each call of crawl_raw_info the exception it raises (NoText when it
\* returns the page), the fingerprint h of the page, the exception
\* save_to_s3 raises (NoText when it succeeds)
NoPage == [attempts |-> <<>>, h |-> NoHash, s3 |-> NoText]

\* every fetch fails, or the first one returns a page with fingerprint h
\* and the S3 save fails or succeeds
CrawlPages ==
  {[attempts |-> [k \in 1..MAX_CRAWL_RETRIES |-> SomeException],
    h |-> NoHash, s3 |-> NoText]}
    \cup {[attempts |-> [k \in 1..MAX_CRAWL_RETRIES |-> NoText],
            h |-> h, s3 |-> s] :
            h \in Fingerprints, s \in {NoText, SomeException}}

HistZero == [fetches |-> 0, failed |-> [c \in Companies |-> 0], wins |-> 0,
             losses |-> 0, noops |-> 0, page |-> NoPage,
             abort_at |-> "none"]

\* no call of is_similar
NoCall == [h1 |-> NoHash, h2 |-> NoHash, t |-> 0, done |-> FALSE,
           out |-> FALSE]

\* an empty jobs table before the first run
DbZero == [rows |-> {}, run_id |-> 0, next_id |-> 1]

CountJobs(js, st) ==
  Cardinality({j \in Jobs : js[j].exists /\ js[j].run_id = RunId
                            /\ js[j].status = st})

\* ------------------------------------------------------------------------
\* Initial state: the run as start_ingestion created it
\* ------------------------------------------------------------------------
Init ==
  /\ run = NewRun
  /\ jobs \in [Jobs -> {NoJob, PrevJob}]
  /\ enabled \in {{}, Companies}
  /\ iw = IwStart
  /\ ab = AbIdle
  /\ aborts = 0
  /\ cq = [c \in Companies |-> <<>>]
  /\ cw = [w \in CrawlWorkers |-> CwIdle]
  /\ ew = [w \in ExtractWorkers |-> EwIdle]
  /\ exmsgs = 0
  /\ db = DbZero
  /\ earlier = NoEarlier
  /\ call = NoCall
  /\ hist = HistZero

\* ------------------------------------------------------------------------
\* Abort endpoint (api/ingestion_routes.py: abort_ingestion)
\* ------------------------------------------------------------------------
\* the query that loads the run, and the terminal-state check
AbortRead ==
  /\ ab.pc = "idle"
  /\ aborts < MaxAborts
  /\ aborts' = aborts + 1
  /\ IF run.status \in TERMINAL
       THEN ab' = [pc |-> "idle", success |-> "false"]
       ELSE ab' = [pc |-> "write", success |-> "none"]
  /\ UNCHANGED <<run, jobs, enabled, iw, cq, cw, ew, exmsgs, hist, db, call,
               earlier>>

\* run.status = ABORTED; db.commit(): UPDATE ... SET status WHERE id
AbortWrite ==
  /\ ab.pc = "write"
  /\ run' = [run EXCEPT !.status = ABORTED]
  /\ ab' = [ab EXCEPT !.pc = "idle", !.success = "true"]
  /\ hist' = [hist EXCEPT !.abort_at = iw.pc]
  /\ UNCHANGED <<jobs, enabled, iw, aborts, cq, cw, ew, exmsgs, db, call,
               earlier>>

\* ------------------------------------------------------------------------
\* ORM write of a run's status: SQLAlchemy puts the column in the UPDATE
\* only when the assigned value differs from the value the object loaded.
\* ------------------------------------------------------------------------
update_run_status(r, loaded, status) ==
  IF loaded = status THEN r ELSE [r EXCEPT !.status = status]

\* ------------------------------------------------------------------------
\* Reconciliation (db/jobs_service.py)
\* ------------------------------------------------------------------------
\* the upsert with ON CONFLICT DO NOTHING in place of DO UPDATE
upsert_jobs_do_nothing(js, D) ==
  [j \in Jobs |->
     IF j \notin D \/ js[j].exists THEN js[j]
     ELSE [NoJob EXCEPT !.exists = TRUE, !.run_id = RunId,
                        !.status = PENDING]]

\* the upsert replacing a conflicting row by the proposed one, as a
\* delete followed by an insert would
upsert_jobs_replace(js, D) ==
  [j \in Jobs |->
     IF j \notin D THEN js[j]
     ELSE [NoJob EXCEPT !.exists = TRUE, !.run_id = RunId,
                        !.status = PENDING]]

\* INSERT ... ON CONFLICT (user, company, external_id) DO UPDATE
upsert_jobs_from_job_data(js, D) ==
  [j \in Jobs |->
     IF j \notin D THEN js[j]
     ELSE IF js[j].exists
       THEN [js[j] EXCEPT !.run_id = RunId, !.status = PENDING,
                          !.error_message = NoText]
       ELSE [NoJob EXCEPT !.exists = TRUE, !.run_id = RunId,
                          !.status = PENDING]]

ToExpire(js) ==
  {j \in Jobs : js[j].exists /\ js[j].run_id # RunId
                /\ js[j].status \notin {EXPIRED, ERROR}}

mark_expired_jobs(js) ==
  [j \in Jobs |-> IF j \in ToExpire(js) THEN [js[j] EXCEPT !.status = EXPIRED]
                  ELSE js[j]]

\* InitializationResult.to_crawl_messages, split by the ordering key
to_crawl_messages(ok, disc, c) ==
  IF c \in ok THEN SetToSeq(disc \cap JobsOf(c)) ELSE <<>>

\* ------------------------------------------------------------------------
\* Ingestion worker (workers/ingestion_worker.py)
\* ------------------------------------------------------------------------
IwOthers == <<enabled, ab, aborts, cw, ew, exmsgs, hist, db, call, earlier>>

\* process_run: load the run, return if it is already aborted
IwGetRun ==
  /\ iw.pc = "start"
  /\ IF run.status = ABORTED
       THEN iw' = IwDone(ABORTED)
       ELSE iw' = [iw EXCEPT !.pc = "set_init", !.status = run.status]
  /\ UNCHANGED <<run, jobs, cq>> /\ UNCHANGED IwOthers

\* process_run: status -> initializing
IwSetInitializing ==
  /\ iw.pc = "set_init"
  /\ run' = update_run_status(run, iw.status, INITIALIZING)
  /\ iw' = [iw EXCEPT !.pc = "settings", !.status = PENDING]
  /\ UNCHANGED <<jobs, cq>> /\ UNCHANGED IwOthers

\* the write for a run without settings, leaving out the error text and
\* the finish time
set_no_settings_error_bare(r) == [r EXCEPT !.status = ERROR]

\* process_run: the write for a run without enabled settings
set_no_settings_error(r) ==
  [r EXCEPT !.status = ERROR, !.error_message = TRUE, !.finished_at = TRUE]

\* process_run: enabled settings; none -> status error.  The run object is
\* expired by the previous commit, so the status column is always written;
\* with settings, the first access in the initialization phase reloads it.
IwSettings ==
  /\ iw.pc = "settings"
  /\ IF enabled = {}
       THEN /\ run' = set_no_settings_error(run)
            /\ iw' = IwDone(ERROR)
       ELSE /\ run' = run
            /\ iw' = [iw EXCEPT !.pc = "init", !.status = run.status]
  /\ UNCHANGED <<jobs, cq>> /\ UNCHANGED IwOthers

\* _map_extractor_error
map_extractor_error(e) ==
  IF e = "timeout" THEN "Request timed out" ELSE "Extraction failed"

\* run_extractor_async: one company's discovery; every exception becomes
\* an error result
run_extractor_async(out) ==
  IF out.exc = "none"
    THEN [status |-> "success", jobs |-> out.jobs, error_message |-> ""]
    ELSE [status |-> "error", jobs |-> {},
          error_message |-> map_extractor_error(out.exc)]

\* the gathering of the tasks when the first exception of a task ends
\* the whole call: no company gets a success result
run_extractors_fail_fast(settings, outs) ==
  IF \E c \in settings : outs[c].exc # "none"
    THEN [c \in settings |->
            [status |-> "error", jobs |-> {},
             error_message |-> "Unexpected error occurred"]]
    ELSE [c \in settings |-> run_extractor_async(outs[c])]

\* run_extractors_async: one task per setting, results keyed by company
run_extractors_async(settings, outs) ==
  [c \in settings |-> run_extractor_async(outs[c])]

\* run_initialization_phase: discovery per enabled company, one upsert
\* per company whose result is a success, an error entry for the others,
\* then mark expired
IwInitialization ==
  /\ iw.pc = "init"
  /\ \E outs \in [Companies -> UNION {Outcomes(c) : c \in Companies}] :
       /\ \A c \in Companies : outs[c] \in Outcomes(c)
       /\ LET res == run_extractors_async(enabled, outs)
              ok == {c \in enabled : res[c].status = "success"}
              D == UNION {res[c].jobs : c \in ok}
              up == upsert_jobs_from_job_data(jobs, D)
          IN  /\ jobs' = mark_expired_jobs(up)
              /\ iw' = [iw EXCEPT !.pc = "write_counts", !.ok = ok,
                                  !.disc = D,
                                  !.status = PENDING,
                                  !.total = Cardinality(D),
                                  !.expired = Cardinality(ToExpire(up)),
                                  !.outs = outs,
                                  !.companies = res]
  /\ UNCHANGED <<run, cq>> /\ UNCHANGED IwOthers

\* an exception inside the initialization phase reaches the handler
IwRaise ==
  /\ iw.pc = "init"
  /\ iw' = [iw EXCEPT !.pc = "handler"]
  /\ UNCHANGED <<run, jobs, cq>> /\ UNCHANGED IwOthers

\* handler: except-branch, mark the run error unless it is terminal (the
\* query returns the object already loaded, with the status it holds)
IwHandler ==
  /\ iw.pc = "handler"
  /\ IF iw.status \notin TERMINAL
       THEN run' = [update_run_status(run, iw.status, ERROR)
                      EXCEPT !.error_message = TRUE, !.finished_at = TRUE]
       ELSE run' = run
  /\ iw' = IwDone(ERROR)
  /\ UNCHANGED <<jobs, cq>> /\ UNCHANGED IwOthers

\* process_run: total_jobs and jobs_expired; status=run.status reloads the
\* row and assigns the value just loaded, so the status is not written
IwWriteCounts ==
  /\ iw.pc = "write_counts"
  /\ run' = [run EXCEPT !.total_jobs = iw.total, !.jobs_expired = iw.expired]
  /\ iw' = [iw EXCEPT !.pc = "refresh", !.total = 0]
  /\ UNCHANGED <<jobs, cq>> /\ UNCHANGED IwOthers

\* process_run: refresh and abort check
IwRefresh ==
  /\ iw.pc = "refresh"
  /\ IF run.status = ABORTED
       THEN iw' = IwDone(ABORTED)
       ELSE iw' = [iw EXCEPT !.pc = "set_ingesting", !.status = run.status]
  /\ UNCHANGED <<run, jobs, cq>> /\ UNCHANGED IwOthers

\* process_run: status -> ingesting
IwSetIngesting ==
  /\ iw.pc = "set_ingesting"
  /\ run' = update_run_status(run, iw.status, INGESTING)
  /\ iw' = [iw EXCEPT !.pc = "ing_start", !.status = PENDING]
  /\ UNCHANGED <<jobs, cq>> /\ UNCHANGED IwOthers

\* the query without its filters: every row of the owner
all_job_ids(js) == {j \in Jobs : js[j].exists}

\* the ids of the pending jobs of this run
pending_job_ids(js) ==
  {j \in Jobs : js[j].exists /\ js[j].run_id = RunId
                /\ js[j].status = PENDING}

\* run_ingestion_phase: the crawl messages are only counted for the log
\* (nothing is sent to the queue); the query for the run's pending jobs
IwIngestionStart ==
  /\ iw.pc = "ing_start"
  /\ cq' = cq
  /\ iw' = [iw EXCEPT !.pc = "batch", !.batch = 0, !.ok = {}, !.disc = {},
                      !.job_ids = SetToSeq(pending_job_ids(jobs))]
  /\ UNCHANGED <<run, jobs>> /\ UNCHANGED IwOthers

NumBatches(n) == Min(MOCK_BATCHES, n)

\* positions in job_ids of batch i (0-based), as the code slices them
BatchRange(n, i) ==
  LET nb == NumBatches(n)
      size == n \div nb
      rem == n % nb
      start == i * size + Min(i, rem)
      len == size + (IF i < rem THEN 1 ELSE 0)
  IN  (start + 1)..(start + len)

\* run_ingestion_phase: one batch, each job gets a random status
IwBatch ==
  /\ iw.pc = "batch"
  /\ iw.batch < NumBatches(Len(iw.job_ids))
  /\ LET B == {iw.job_ids[k] : k \in BatchRange(Len(iw.job_ids), iw.batch)}
     IN  \E st \in [B -> {READY, SKIPPED, ERROR}] :
           /\ jobs' = [j \in Jobs |-> IF j \in B /\ jobs[j].exists
                                        THEN [jobs[j] EXCEPT !.status = st[j]]
                                        ELSE jobs[j]]
           /\ iw' = [iw EXCEPT
                !.batch = @ + 1,
                !.ready = @ + Cardinality({j \in B : st[j] = READY}),
                !.skipped = @ + Cardinality({j \in B : st[j] = SKIPPED}),
                !.failed = @ + Cardinality({j \in B : st[j] = ERROR})]
  /\ UNCHANGED <<run, cq>> /\ UNCHANGED IwOthers

\* run_ingestion_phase: finalize with the snapshot (unconditional write)
IwFinish ==
  /\ iw.pc = "batch"
  /\ iw.batch = NumBatches(Len(iw.job_ids))
  /\ run' = [run EXCEPT !.status = FINISHED,
                        !.finished_at = TRUE,
                        !.jobs_ready = iw.ready,
                        !.jobs_skipped = iw.skipped,
                        !.jobs_expired = iw.expired,
                        !.jobs_failed = iw.failed]
  /\ iw' = [IwStart EXCEPT !.pc = "return", !.outs = iw.outs]
  /\ UNCHANGED <<jobs, cq>> /\ UNCHANGED IwOthers

\* process_run: the returned status is run.status, reloaded after the commit
IwReturn ==
  /\ iw.pc = "return"
  /\ iw' = IwDone(run.status)
  /\ UNCHANGED <<run, jobs, cq>> /\ UNCHANGED IwOthers

IngestionWorker ==
  \/ IwGetRun \/ IwSetInitializing \/ IwSettings \/ IwInitialization
  \/ IwRaise \/ IwHandler \/ IwWriteCounts \/ IwRefresh \/ IwSetIngesting
  \/ IwIngestionStart \/ IwBatch \/ IwFinish \/ IwReturn

\* ------------------------------------------------------------------------
\* Crawl queue (ordered per company) and crawl worker
\* (workers/crawler_worker.py)
\* ------------------------------------------------------------------------
CwOthers == <<enabled, iw, ab, aborts, ew, exmsgs, db, call, earlier>>

\* delivery of the next instruction of a company; instructions of one
\* company are handed out one at a time, in order
CrawlReceive(w) ==
  /\ cw[w].pc = "idle"
  /\ \E c \in Companies :
       /\ cq[c] # <<>>
       /\ \A v \in CrawlWorkers :
            cw[v].pc # "idle" => CompanyOf(cw[v].job) # c
       /\ cw' = [cw EXCEPT ![w] = [CwIdle EXCEPT !.pc = "recv",
                                                !.job = Head(cq[c])]]
       /\ cq' = [cq EXCEPT ![c] = Tail(cq[c])]
  /\ UNCHANGED <<run, jobs, hist>> /\ UNCHANGED CwOthers

\* update_job_status without the assignment of the fingerprint
update_job_status_0(js, j, status, simhash, raw_s3_url, error_message) ==
  IF ~js[j].exists THEN js
  ELSE [js EXCEPT ![j] =
          [@ EXCEPT !.status = status,
                    !.raw_s3_url = IF raw_s3_url THEN TRUE ELSE @,
                    !.error_message = IF error_message # NoText
                                        THEN error_message
                                      ELSE @]]

\* update_job_status assigning every field, None included
update_job_status_all(js, j, status, simhash, raw_s3_url, error_message) ==
  IF ~js[j].exists THEN js
  ELSE [js EXCEPT ![j] =
          [@ EXCEPT !.status = status,
                    !.simhash = simhash,
                    !.raw_s3_url = raw_s3_url,
                    !.error_message = error_message]]

\* update_job_status: the posting's row, if it exists
update_job_status(js, j, status, simhash, raw_s3_url, error_message) ==
  IF ~js[j].exists THEN js
  ELSE [js EXCEPT ![j] =
          [@ EXCEPT !.status = status,
                    !.simhash = IF simhash # NoHash THEN simhash ELSE @,
                    !.raw_s3_url = IF raw_s3_url THEN TRUE ELSE @,
                    !.error_message = IF error_message # NoText
                                        THEN error_message
                                      ELSE @]]

\* the workers' abort check with the comparison against a wrong status
run_aborted_wrong(r) == r.status = ERROR

\* the abort check both queue workers make on the run they loaded
run_aborted(r) == r.status = ABORTED

\* the text stored on a posting whose company's breaker is open
CIRCUIT_BREAKER_TEXT == literal("Circuit breaker: too many failures")

\* the circuit breaker test with > in place of >=
circuit_open_gt(failures) == failures > CIRCUIT_BREAKER_THRESHOLD

\* the circuit breaker test on the failure count read from the run
circuit_open(failures) == failures >= CIRCUIT_BREAKER_THRESHOLD

\* process_crawl_message step 1: load run and metadata, abort check,
\* circuit breaker check
CrawlLoad(w) ==
  /\ cw[w].pc = "recv"
  /\ LET j == cw[w].job
         failures == run.run_metadata[CompanyOf(j)]
     IN  IF run_aborted(run)
           THEN /\ cw' = [cw EXCEPT ![w] = CwIdle]
                /\ jobs' = jobs
                /\ hist' = [hist EXCEPT !.noops = @ + 1]
         ELSE IF circuit_open(failures)
           THEN /\ cw' = [cw EXCEPT ![w] = CwIdle]
                /\ jobs' = update_job_status(jobs, j, ERROR, NoHash, FALSE,
                                             CIRCUIT_BREAKER_TEXT)
                /\ hist' = hist
         ELSE /\ cw' = [cw EXCEPT ![w].pc = "loaded",
                                  ![w].meta = run.run_metadata]
              /\ jobs' = jobs
              /\ hist' = hist
  /\ UNCHANGED <<run, cq>> /\ UNCHANGED CwOthers

\* increment_failure_count: the whole run_metadata object is written back
\* from the copy this worker loaded in step 1
increment_failure_count(r, meta, company) ==
  [r EXCEPT !.run_metadata = [meta EXCEPT ![company] = @ + 1]]

\* process_crawl_message steps 2-6: crawl_with_retry fails, or returns a
\* page with fingerprint h; unchanged page -> skipped; S3 save fails or
\* succeeds
CrawlFetch(w) ==
  /\ cw[w].pc = "loaded"
  /\ LET j == cw[w].job
         c == CompanyOf(j)
         failed == /\ run' = increment_failure_count(run, cw[w].meta, c)
                   /\ hist' = [hist EXCEPT !.fetches = @ + 1,
                                           !.failed[c] = @ + 1]
         passed == /\ run' = run
                   /\ hist' = [hist EXCEPT !.fetches = @ + 1]
     IN  \/ /\ failed
            /\ jobs' = update_job_status(jobs, j, ERROR, NoHash, FALSE,
                                         str_slice(SomeException,
                                                   ERROR_TEXT_LIMIT))
            /\ cw' = [cw EXCEPT ![w] = CwIdle]
         \/ /\ ~jobs[j].exists
            /\ passed
            /\ jobs' = jobs
            /\ cw' = [cw EXCEPT ![w] = CwIdle]
         \/ /\ jobs[j].exists
            /\ \E h \in Fingerprints :
                 IF is_similar(jobs[j].simhash, h, SIMILAR_THRESHOLD)
                   THEN /\ passed
                        /\ jobs' = update_job_status(jobs, j, SKIPPED, h,
                                                     FALSE, NoText)
                        /\ cw' = [cw EXCEPT ![w] = CwIdle]
                   ELSE \/ /\ failed
                           /\ jobs' = update_job_status(jobs, j, ERROR, NoHash,
                                                        FALSE,
                                                        str_format("S3 error: ",
                                                                   SomeException))
                           /\ cw' = [cw EXCEPT ![w] = CwIdle]
                        \/ /\ passed
                           /\ jobs' = update_job_status(jobs, j, READY, h,
                                                        TRUE, NoText)
                           /\ cw' = [cw EXCEPT ![w] = CwIdle]
  /\ UNCHANGED cq /\ UNCHANGED CwOthers

CrawlWorker(w) == CrawlReceive(w) \/ CrawlLoad(w) \/ CrawlFetch(w)

\* crawl_with_retry: the loop from the attempt with index attempt on,
\* last_error being the exception of the attempt before
RECURSIVE retry_loop(_, _, _)
retry_loop(attempts, attempt, last_error) ==
  IF attempt >= MAX_CRAWL_RETRIES
    THEN [ok |-> FALSE, calls |-> attempt, e |-> last_error]
  ELSE IF attempts[attempt + 1] = NoText
    THEN [ok |-> TRUE, calls |-> attempt + 1, e |-> NoText]
  ELSE retry_loop(attempts, attempt + 1, attempts[attempt + 1])

\* crawl_with_retry raising the exception of the first failed attempt
crawl_with_retry_first(attempts) ==
  LET res == retry_loop(attempts, 0, NoText)
  IN  IF res.ok THEN res ELSE [res EXCEPT !.e = attempts[1]]

\* crawl_with_retry: whether a page is returned, the number of calls of
\* crawl_raw_info made, the exception raised
crawl_with_retry(attempts) == retry_loop(attempts, 0, NoText)

\* process_crawl_message run from its first line to its return with no
\* other writer in between, for posting j and what the attempt meets
\* (page): the run and the postings it leaves, the number of calls of
\* crawl_raw_info and of save_to_s3 it made
process_crawl_message(r, js, j, page) ==
  LET c == CompanyOf(j)
      failures == r.run_metadata[c]
      crawl == crawl_with_retry(page.attempts)
  IN  IF run_aborted(r)
        THEN [run |-> r, jobs |-> js, calls |-> 0, saves |-> 0]
      ELSE IF circuit_open(failures)
        THEN [run |-> r,
              jobs |-> update_job_status(js, j, ERROR, NoHash, FALSE,
                                         CIRCUIT_BREAKER_TEXT),
              calls |-> 0, saves |-> 0]
      ELSE IF ~crawl.ok
        THEN [run |-> increment_failure_count(r, r.run_metadata, c),
              jobs |-> update_job_status(js, j, ERROR, NoHash, FALSE,
                                         str_slice(crawl.e, ERROR_TEXT_LIMIT)),
              calls |-> crawl.calls, saves |-> 0]
      ELSE IF ~js[j].exists
        THEN [run |-> r, jobs |-> js, calls |-> crawl.calls, saves |-> 0]
      ELSE IF is_similar(js[j].simhash, page.h, SIMILAR_THRESHOLD)
        THEN [run |-> r,
              jobs |-> update_job_status(js, j, SKIPPED, page.h, FALSE,
                                         NoText),
              calls |-> crawl.calls, saves |-> 0]
      ELSE IF page.s3 # NoText
        THEN [run |-> increment_failure_count(r, r.run_metadata, c),
              jobs |-> update_job_status(js, j, ERROR, NoHash, FALSE,
                                         str_format("S3 error: ", page.s3)),
              calls |-> crawl.calls, saves |-> 1]
      ELSE [run |-> r,
            jobs |-> update_job_status(js, j, READY, page.h, TRUE, NoText),
            calls |-> crawl.calls, saves |-> 1]

\* the queue hands a crawl instruction to worker 1, which processes it to
\* the end; the instruction stays in flight
Deliver(pages) ==
  /\ cw[1].pc = "idle"
  /\ \E c \in Companies, page \in pages :
       /\ cq[c] # <<>>
       /\ LET j == Head(cq[c])
              out == process_crawl_message(run, jobs, j, page)
          IN  /\ run' = out.run
              /\ jobs' = out.jobs
              /\ cw' = [cw EXCEPT ![1] = [CwIdle EXCEPT !.pc = "delivered",
                                                        !.job = j,
                                                        !.calls = out.calls,
                                                        !.saves = out.saves]]
       /\ cq' = [cq EXCEPT ![c] = Tail(cq[c])]
       /\ hist' = [hist EXCEPT !.page = page]
  /\ UNCHANGED CwOthers

CrawlDeliver == Deliver(CrawlPages)

\* the queue delivers the same instruction a second time (at-least-once
\* delivery); the fetch and the save meet what they met the first time
CrawlRedeliver ==
  /\ cw[1].pc = "delivered"
  /\ LET out == process_crawl_message(run, jobs, cw[1].job, hist.page)
     IN  /\ run' = out.run
         /\ jobs' = out.jobs
  /\ cw' = [cw EXCEPT ![1] = CwIdle]
  /\ hist' = [hist EXCEPT !.page = NoPage]
  /\ UNCHANGED cq /\ UNCHANGED CwOthers

\* ------------------------------------------------------------------------
\* Extract worker (workers/extractor_worker.py) and run finalizer
\* (db/run_service.py)
\* ------------------------------------------------------------------------
EwOthers == <<enabled, iw, ab, aborts, cq, cw, db, call, earlier>>

\* delivery of an extract instruction for a posting whose raw content the
\* crawl stage stored (a message can be delivered more than once)
ExtractReceive(w) ==
  /\ ew[w].pc = "idle"
  /\ exmsgs < MaxExtractMsgs
  /\ \E j \in Jobs :
       /\ jobs[j].exists /\ jobs[j].run_id = RunId
       /\ jobs[j].raw_s3_url /\ jobs[j].status = READY
       /\ ew' = [ew EXCEPT ![w] = [EwIdle EXCEPT !.pc = "recv", !.job = j]]
  /\ exmsgs' = exmsgs + 1
  /\ UNCHANGED <<run, jobs, hist>> /\ UNCHANGED EwOthers

\* update_job_extracted without the parsed fields
update_job_extracted_status(js, j) ==
  [js EXCEPT ![j] = [@ EXCEPT !.status = READY]]

update_job_extracted(js, j) ==
  [js EXCEPT ![j] = [@ EXCEPT !.status = READY, !.description = TRUE]]

update_job_error(js, j, error_message) ==
  [js EXCEPT ![j] = [@ EXCEPT !.status = ERROR,
                              !.error_message = str_slice(error_message,
                                                          ERROR_TEXT_LIMIT)]]

\* process_extract_message steps 1-5: abort check, load the posting,
\* download (may fail), parse (may fail), persist
ExtractProcess(w) ==
  /\ ew[w].pc = "recv"
  /\ LET j == ew[w].job
     IN  IF run_aborted(run)
           THEN /\ ew' = [ew EXCEPT ![w] = EwIdle]
                /\ jobs' = jobs
                /\ hist' = [hist EXCEPT !.noops = @ + 1]
         ELSE IF ~jobs[j].exists
           THEN /\ ew' = [ew EXCEPT ![w] = EwIdle]
                /\ jobs' = jobs
                /\ hist' = hist
         ELSE /\ ew' = [ew EXCEPT ![w] = [EwIdle EXCEPT !.pc = "fin_check"]]
              /\ hist' = hist
              /\ \/ jobs' = update_job_error(jobs, j,
                                            str_format("S3 download error: ",
                                                       SomeException))
                 \/ jobs' = update_job_error(jobs, j,
                                            str_format("Extraction error: ",
                                                       SomeException))
                 \/ jobs' = update_job_extracted(jobs, j)
  /\ UNCHANGED <<run, exmsgs>> /\ UNCHANGED EwOthers

\* the completeness test with the count of the ready postings
check_run_complete_ready(js) == CountJobs(js, READY) = 0

\* try_finalize_run without the completeness test
check_run_complete_always(js) == TRUE

\* check_run_complete: no posting of the run is pending
check_run_complete(js) == CountJobs(js, PENDING) = 0

\* try_finalize_run: the COUNT query
FinCheck(w) ==
  /\ ew[w].pc = "fin_check"
  /\ IF check_run_complete(jobs)
       THEN /\ ew' = [ew EXCEPT ![w].pc = "fin_count"]
            /\ hist' = hist
       ELSE /\ ew' = [ew EXCEPT ![w] = EwIdle]
            /\ hist' = [hist EXCEPT !.losses = @ + 1]
  /\ UNCHANGED <<run, jobs, exmsgs>> /\ UNCHANGED EwOthers

\* finalize_run: the per-status counts query
FinCount(w) ==
  /\ ew[w].pc = "fin_count"
  /\ ew' = [ew EXCEPT ![w].pc = "fin_update",
                      ![w].ready = CountJobs(jobs, READY),
                      ![w].skipped = CountJobs(jobs, SKIPPED),
                      ![w].failed = CountJobs(jobs, ERROR),
                      ![w].expired = CountJobs(jobs, EXPIRED)]
  /\ UNCHANGED <<run, jobs, exmsgs, hist>> /\ UNCHANGED EwOthers

\* finalize_run with the status guard dropped from the WHERE clause
finalize_run_unguarded(r, ready, skipped, failed, expired) ==
  [row |-> [r EXCEPT !.status = FINISHED, !.jobs_ready = ready,
                     !.jobs_skipped = skipped, !.jobs_failed = failed,
                     !.jobs_expired = expired, !.finished_at = TRUE],
   rowcount |-> 1]

\* finalize_run: the UPDATE ... WHERE id = :run_id AND status = 'ingesting';
\* the row afterwards and the statement's rowcount
finalize_run(r, ready, skipped, failed, expired) ==
  IF r.status = INGESTING
    THEN [row |-> [r EXCEPT !.status = FINISHED, !.jobs_ready = ready,
                            !.jobs_skipped = skipped, !.jobs_failed = failed,
                            !.jobs_expired = expired, !.finished_at = TRUE],
          rowcount |-> 1]
    ELSE [row |-> r, rowcount |-> 0]

\* finalize_run: the conditional update; returns rowcount > 0
FinUpdate(w) ==
  /\ ew[w].pc = "fin_update"
  /\ LET res == finalize_run(run, ew[w].ready, ew[w].skipped, ew[w].failed,
                             ew[w].expired)
     IN  /\ run' = res.row
         /\ ew' = [ew EXCEPT ![w] = EwIdle]
         /\ IF res.rowcount > 0
              THEN hist' = [hist EXCEPT !.wins = @ + 1]
              ELSE hist' = [hist EXCEPT !.losses = @ + 1]
  /\ UNCHANGED <<jobs, exmsgs>> /\ UNCHANGED EwOthers

ExtractWorker(w) ==
  ExtractReceive(w) \/ ExtractProcess(w) \/ FinCheck(w) \/ FinCount(w)
  \/ FinUpdate(w)

\* ------------------------------------------------------------------------
\* Spec: one run from its creation: the coordinator and the abort
\* endpoint.  (Nothing in the repository sends a crawl or an extract
\* instruction: run_ingestion_phase only logs the number of crawl messages
\* and the crawl worker's step 7 is not implemented; the two queue workers
\* are driven by the messages their queues deliver, see SpecPipeline.)
\* ------------------------------------------------------------------------
Next ==
  \/ IngestionWorker
  \/ AbortRead \/ AbortWrite

Spec == Init /\ [][Next]_vars

\* ------------------------------------------------------------------------
\* The queue-driven stages on a run that the coordinator has put in
\* ingesting: every posting of the run is pending and has a crawl
\* instruction queued.  The coordinator stands at the start of its
\* ingestion phase and takes no step in these specifications.
\* ------------------------------------------------------------------------
\* a posting as the upsert leaves it: newly inserted, or re-queued
NewPending == [NoJob EXCEPT !.exists = TRUE, !.run_id = RunId,
                            !.status = PENDING]
PrevPending == [PrevJob EXCEPT !.run_id = RunId, !.status = PENDING]

\* what InitCrawl and InitPipeline share
InitQueues ==
  /\ enabled = Companies
  /\ iw = IwIngesting
  /\ ab = AbIdle
  /\ aborts = 0
  /\ cq = [c \in Companies |-> to_crawl_messages(Companies, Jobs, c)]
  /\ cw = [w \in CrawlWorkers |-> CwIdle]
  /\ ew = [w \in ExtractWorkers |-> EwIdle]
  /\ exmsgs = 0
  /\ db = DbZero
  /\ earlier = NoEarlier
  /\ call = NoCall

\* ------------------------------------------------------------------------
\* SpecCrawl: the crawl stage and the abort endpoint; the run has already
\* recorded some crawl failures per company, each posting is new or was
\* stored by an earlier run.
\* ------------------------------------------------------------------------
InitFailures ==
  {0, CIRCUIT_BREAKER_THRESHOLD - 1, CIRCUIT_BREAKER_THRESHOLD}

InitCrawl ==
  /\ \E m \in [Companies -> InitFailures] :
       /\ run = [NewRun EXCEPT !.status = INGESTING, !.total_jobs = MaxJobs,
                               !.jobs_expired = 0, !.run_metadata = m]
       /\ hist = [HistZero EXCEPT !.failed = m]
  /\ jobs \in [Jobs -> {NewPending, PrevPending}]
  /\ InitQueues

NextCrawl ==
  \/ AbortRead \/ AbortWrite
  \/ \E w \in CrawlWorkers : CrawlWorker(w)

SpecCrawl == InitCrawl /\ [][NextCrawl]_vars

\* ------------------------------------------------------------------------
\* SpecPipeline: the crawl stage, the extract stage with the finalizer and
\* the abort endpoint, on a run as process_run leaves it (no failure
\* recorded); the first posting was stored by an earlier run, the others
\* are new; extract instructions arrive for postings whose content was
\* stored.
\* ------------------------------------------------------------------------
InitPipeline ==
  /\ run = [NewRun EXCEPT !.status = INGESTING, !.total_jobs = MaxJobs,
                          !.jobs_expired = 0]
  /\ hist = HistZero
  /\ jobs = [j \in Jobs |-> IF j = 1 THEN PrevPending ELSE NewPending]
  /\ InitQueues

NextPipeline ==
  \/ AbortRead \/ AbortWrite
  \/ \E w \in CrawlWorkers : CrawlWorker(w)
  \/ \E w \in ExtractWorkers : ExtractWorker(w)

SpecPipeline == InitPipeline /\ [][NextPipeline]_vars

\* fair processing of every queued crawl and extract instruction; an abort
\* request that has loaded the run goes on to its commit
FairPipeline ==
  /\ SpecPipeline
  /\ WF_vars(AbortWrite)
  /\ \A w \in CrawlWorkers : WF_vars(CrawlWorker(w))
  /\ \A w \in ExtractWorkers : WF_vars(ExtractWorker(w))

\* ------------------------------------------------------------------------
\* SpecFinalize: every extract worker has just written its posting and
\* calls try_finalize_run on a run that is ingesting and has no pending
\* posting.
\* ------------------------------------------------------------------------
InitFinalize ==
  /\ run = [NewRun EXCEPT !.status = INGESTING, !.total_jobs = MaxJobs,
                          !.jobs_expired = 0]
  /\ \E st \in [Jobs -> {READY, SKIPPED, ERROR}] :
       jobs = [j \in Jobs |-> [NewPending EXCEPT !.status = st[j]]]
  /\ enabled = Companies
  /\ iw = IwIngesting
  /\ ab = AbIdle
  /\ aborts = 0
  /\ cq = [c \in Companies |-> <<>>]
  /\ cw = [w \in CrawlWorkers |-> CwIdle]
  /\ ew = [w \in ExtractWorkers |->
             [EwIdle EXCEPT !.pc = "fin_check"]]
  /\ exmsgs = 0
  /\ db = DbZero
  /\ earlier = NoEarlier
  /\ call = NoCall
  /\ hist = HistZero

NextFinalize == \E w \in ExtractWorkers : FinCheck(w) \/ FinCount(w) \/ FinUpdate(w)

SpecFinalize == InitFinalize /\ [][NextFinalize]_vars

\* ------------------------------------------------------------------------
\* SpecRedelivery: every crawl instruction of the run is delivered twice
\* in a row to the same worker.
\* ------------------------------------------------------------------------
NextRedelivery == CrawlDeliver \/ CrawlRedeliver

SpecRedelivery == InitCrawl /\ [][NextRedelivery]_vars

\* ------------------------------------------------------------------------
\* SpecRuns: the jobs table row by row over successive runs of one owner.
\* A row is [id, key, run_id, status, created]: the surrogate id, the
\* natural key (company, external id) as a posting number, the run that
\* listed it last, its status, the run that inserted it.
\* ------------------------------------------------------------------------
\* the rows that conflict with a proposed key on uq_user_company_job
uq_user_company_job(rows, k) == {r \in rows : r.key = k}

\* the statement as a plain INSERT into a table without the constraint
insert_rows(rows, next_id, D, rid) ==
  LET new == SetToSeq(D)
  IN  rows \cup {[id |-> next_id + i - 1, key |-> new[i], run_id |-> rid,
                  status |-> PENDING, created |-> rid] : i \in 1..Len(new)}

\* upsert_jobs_from_job_data as one INSERT ... ON CONFLICT ON CONSTRAINT
\* uq_user_company_job DO UPDATE over the rows D of run rid
upsert_rows(rows, next_id, D, rid) ==
  LET new == SetToSeq({k \in D : uq_user_company_job(rows, k) = {}})
  IN  {IF r.key \in D THEN [r EXCEPT !.run_id = rid, !.status = PENDING]
       ELSE r : r \in rows}
        \cup {[id |-> next_id + i - 1, key |-> new[i], run_id |-> rid,
                status |-> PENDING, created |-> rid] : i \in 1..Len(new)}

\* mark_expired_jobs as its UPDATE statement
mark_expired_rows(rows, rid) ==
  {IF r.run_id # rid /\ r.status \notin {EXPIRED, ERROR}
     THEN [r EXCEPT !.status = EXPIRED] ELSE r : r \in rows}

RunsOthers == <<run, jobs, enabled, iw, ab, aborts, cq, cw, ew, exmsgs, hist,
               call, earlier>>

\* start_ingestion: a new run row
RunsStart ==
  /\ db.run_id < MaxRuns
  /\ db' = [db EXCEPT !.run_id = @ + 1]
  /\ UNCHANGED RunsOthers

\* the initialization phase upserts the postings one company returned
RunsUpsert ==
  /\ db.run_id > 0
  /\ \E c \in Companies : \E D \in SUBSET JobsOf(c) :
       /\ D # {}
       /\ LET rows == upsert_rows(db.rows, db.next_id, D, db.run_id)
          IN  /\ Cardinality(rows) <= 2 * MaxJobs
              /\ db' = [db EXCEPT !.rows = rows,
                                  !.next_id = @ + Cardinality(rows)
                                                - Cardinality(db.rows)]
  /\ UNCHANGED RunsOthers

\* the initialization phase marks the postings no longer listed
RunsExpire ==
  /\ db.run_id > 0
  /\ db' = [db EXCEPT !.rows = mark_expired_rows(@, db.run_id)]
  /\ UNCHANGED RunsOthers

\* a crawl worker ends a pending posting of the latest run
RunsCrawled ==
  /\ \E r \in db.rows, st \in {READY, ERROR} :
       /\ r.run_id = db.run_id /\ r.status = PENDING
       /\ db' = [db EXCEPT !.rows = (@ \ {r}) \cup {[r EXCEPT !.status = st]}]
  /\ UNCHANGED RunsOthers

NextRuns == RunsStart \/ RunsUpsert \/ RunsExpire \/ RunsCrawled

\* the table is empty and no run has been started
InitRuns ==
  /\ Init
  /\ jobs = [j \in Jobs |-> NoJob]
  /\ enabled = Companies

SpecRuns == InitRuns /\ [][NextRuns]_vars

\* ------------------------------------------------------------------------
\* SpecNewPostings: the queue-driven stages on a run all of whose postings
\* were inserted by this run (none has a stored fingerprint, raw content or
\* description); no abort is requested.
\* ------------------------------------------------------------------------
InitNewPostings ==
  /\ run = [NewRun EXCEPT !.status = INGESTING, !.total_jobs = MaxJobs,
                          !.jobs_expired = 0]
  /\ hist = HistZero
  /\ jobs = [j \in Jobs |-> NewPending]
  /\ InitQueues

NextQueues ==
  \/ \E w \in CrawlWorkers : CrawlWorker(w)
  \/ \E w \in ExtractWorkers : ExtractWorker(w)

SpecNewPostings == InitNewPostings /\ [][NextQueues]_vars

\* ------------------------------------------------------------------------
\* SpecSimilar: one call of is_similar on arguments drawn from the
\* fingerprints of HashBits bits and None, with a threshold up to
\* MaxThreshold.
\* ------------------------------------------------------------------------
Hashes == SUBSET (0..(HashBits - 1)) \cup {NoHash}

SimilarOthers == <<run, jobs, enabled, iw, ab, aborts, cq, cw, ew, exmsgs, hist,
                  db, earlier>>

InitSimilar ==
  /\ run = NewRun
  /\ jobs = [j \in Jobs |-> NoJob]
  /\ enabled = Companies
  /\ iw = IwStart
  /\ ab = AbIdle
  /\ aborts = 0
  /\ cq = [c \in Companies |-> <<>>]
  /\ cw = [w \in CrawlWorkers |-> CwIdle]
  /\ ew = [w \in ExtractWorkers |-> EwIdle]
  /\ exmsgs = 0
  /\ db = DbZero
  /\ earlier = NoEarlier
  /\ hist = HistZero
  /\ \E h1 \in Hashes, h2 \in Hashes, t \in 0..MaxThreshold :
       call = [NoCall EXCEPT !.h1 = h1, !.h2 = h2, !.t = t]

\* the call returns
CallIsSimilar ==
  /\ ~call.done
  /\ call' = [call EXCEPT !.done = TRUE,
                          !.out = is_similar(call.h1, call.h2, call.t)]
  /\ UNCHANGED SimilarOthers

SpecSimilar == InitSimilar /\ [][CallIsSimilar]_vars

\* ------------------------------------------------------------------------
\* SpecTitles: one call of filter_by_title on a one-title list, the title
\* of up to MaxTitleLen characters, the include list None or a list of up
\* to MaxTerms terms, the exclude list likewise.
\* ------------------------------------------------------------------------
RECURSIVE Strings(_, _)
Strings(A, n) ==
  IF n = 0 THEN {<<>>}
  ELSE Strings(A, n - 1)
         \cup {Append(x, c) : x \in {y \in Strings(A, n - 1) : Len(y) = n - 1},
                              c \in A}

Titles == Strings(Alphabet, MaxTitleLen)

Terms == {<<>>, <<"a">>, <<"A">>, <<"A", "b">>}

RECURSIVE TermLists(_)
TermLists(n) ==
  IF n = 0 THEN {<<>>}
  ELSE TermLists(n - 1)
         \cup {Append(x, t) : x \in {y \in TermLists(n - 1) : Len(y) = n - 1},
                              t \in Terms}

NoTerms == [null |-> TRUE, terms |-> <<>>]

OptionalTerms ==
  {NoTerms} \cup {[null |-> FALSE, terms |-> l] : l \in TermLists(MaxTerms)}

InitTitles ==
  /\ run = NewRun
  /\ jobs = [j \in Jobs |-> NoJob]
  /\ enabled = Companies
  /\ iw = IwStart
  /\ ab = AbIdle
  /\ aborts = 0
  /\ cq = [c \in Companies |-> <<>>]
  /\ cw = [w \in CrawlWorkers |-> CwIdle]
  /\ ew = [w \in ExtractWorkers |-> EwIdle]
  /\ exmsgs = 0
  /\ db = DbZero
  /\ earlier = NoEarlier
  /\ hist = HistZero
  /\ \E t \in Titles, inc \in OptionalTerms, exc \in OptionalTerms :
       call = [titles |-> <<t>>, include_terms |-> inc,
               exclude_terms |-> exc, done |-> FALSE, out |-> <<>>]

\* the call returns
CallFilterByTitle ==
  /\ ~call.done
  /\ call' = [call EXCEPT !.done = TRUE,
                          !.out = filter_by_title(call.titles,
                                                  call.include_terms,
                                                  call.exclude_terms)]
  /\ UNCHANGED SimilarOthers

SpecTitles == InitTitles /\ [][CallFilterByTitle]_vars

\* ------------------------------------------------------------------------
\* SpecSimhash: one call of compute_simhash on a content of up to
\* MaxContentLen characters (letters in both cases and the blank), with
\* every assignment of HashBits-bit digests to the content's tokens.
\* ------------------------------------------------------------------------
Contents == Strings(WordChars \cup {" "}, MaxContentLen)

TokenHashes == 0..(2 ^ HashBits - 1)

InitSimhash ==
  /\ run = NewRun
  /\ jobs = [j \in Jobs |-> NoJob]
  /\ enabled = Companies
  /\ iw = IwStart
  /\ ab = AbIdle
  /\ aborts = 0
  /\ cq = [c \in Companies |-> <<>>]
  /\ cw = [w \in CrawlWorkers |-> CwIdle]
  /\ ew = [w \in ExtractWorkers |-> EwIdle]
  /\ exmsgs = 0
  /\ db = DbZero
  /\ earlier = NoEarlier
  /\ hist = HistZero
  /\ \E content \in Contents :
       \E md5 \in [SeqToSet(tokenize(content)) -> TokenHashes] :
         call = [content |-> content, md5 |-> md5, done |-> FALSE, out |-> 0]

\* the call returns
CallComputeSimhash ==
  /\ ~call.done
  /\ call' = [call EXCEPT !.done = TRUE,
                          !.out = compute_simhash(call.md5, call.content)]
  /\ UNCHANGED SimilarOthers

SpecSimhash == InitSimhash /\ [][CallComputeSimhash]_vars

\* ------------------------------------------------------------------------
\* SpecDuplicate: an invocation of the ingestion worker arrives for a run
\* in any status: the first invocation for a pending run, or a duplicate
\* one for a run an earlier invocation has taken further.
\* ------------------------------------------------------------------------
\* the postings of the run's owner while the run has the status s
JobsAt(s) ==
  IF s = INGESTING THEN {NewPending, [NewPending EXCEPT !.status = READY]}
  ELSE IF s = FINISHED
    THEN {[NewPending EXCEPT !.status = READY],
          [NewPending EXCEPT !.status = ERROR]}
  ELSE {NoJob, PrevJob}

InitDuplicate ==
  /\ \E s \in {PENDING, INITIALIZING, INGESTING} \cup TERMINAL :
       /\ run = [NewRun EXCEPT !.status = s, !.finished_at = s \in TERMINAL]
       /\ jobs \in [Jobs -> JobsAt(s)]
  /\ enabled \in {{}, Companies}
  /\ iw = IwStart
  /\ ab = AbIdle
  /\ aborts = 0
  /\ cq = [c \in Companies |-> <<>>]
  /\ cw = [w \in CrawlWorkers |-> CwIdle]
  /\ ew = [w \in ExtractWorkers |-> EwIdle]
  /\ exmsgs = 0
  /\ db = DbZero
  /\ earlier = NoEarlier
  /\ call = NoCall
  /\ hist = HistZero

SpecDuplicate == InitDuplicate /\ [][IngestionWorker]_vars

\* ------------------------------------------------------------------------
\* SpecRetry: one crawl worker processes the crawl instructions one after
\* the other, each to its end; every call of crawl_raw_info succeeds or
\* raises an exception of its own, with a short or a long message, and so
\* does save_to_s3.
\* ------------------------------------------------------------------------
\* lengths of exception messages: short, the limit, beyond the limit
ExcLens == {1, ERROR_TEXT_LIMIT, ERROR_TEXT_LIMIT + 1}

\* the exception the k-th call of crawl_raw_info can raise
CrawlExceptions(k) ==
  {[txt |-> <<"e1", "e2", "e3">>[k], len |-> n] : n \in ExcLens}

S3Exceptions == {[txt |-> "s3", len |-> n] : n \in ExcLens}

RetryPages ==
  {[attempts |-> a, h |-> h, s3 |-> x] :
     a \in {f \in [1..MAX_CRAWL_RETRIES ->
                     {NoText} \cup UNION {CrawlExceptions(k) :
                                            k \in 1..MAX_CRAWL_RETRIES}] :
              \A k \in 1..MAX_CRAWL_RETRIES :
                f[k] \in {NoText} \cup CrawlExceptions(k)},
     h \in Fingerprints,
     x \in {NoText} \cup S3Exceptions}

CrawlDeliverRetry == Deliver(RetryPages)

\* the worker returns and the queue deletes the instruction
CrawlAck ==
  /\ cw[1].pc = "delivered"
  /\ cw' = [cw EXCEPT ![1] = CwIdle]
  /\ hist' = [hist EXCEPT !.page = NoPage]
  /\ UNCHANGED <<run, jobs, cq>> /\ UNCHANGED CwOthers

NextRetry == CrawlDeliverRetry \/ CrawlAck

SpecRetry == InitCrawl /\ [][NextRetry]_vars

\* ------------------------------------------------------------------------
\* SpecReconciled: the queue-driven stages on a run as the initialization
\* phase of process_run leaves it, for every table of parsed postings an
\* earlier run can have left and every set of postings discovered: the
\* discovered postings are pending with a crawl instruction queued, the
\* others keep their run id and are expired.  No abort is requested.
\* SpecUnparsed: the same, the earlier run having failed to parse some of
\* the postings it stored.
\* ------------------------------------------------------------------------
\* a posting whose content an earlier run stored and failed to parse
PrevUnparsed ==
  [PrevJob EXCEPT !.status = ERROR, !.description = FALSE,
                  !.error_message = str_slice(str_format("Extraction error: ",
                                                         SomeException),
                                              ERROR_TEXT_LIMIT)]

\* the state after run_initialization_phase, the total_jobs / jobs_expired
\* write and the write of status ingesting, the rows before the run being
\* drawn from priors
Reconciled(priors) ==
  /\ \E js0 \in [Jobs -> priors], D \in SUBSET Jobs :
       LET up == upsert_jobs_from_job_data(js0, D)
           res == [c \in Companies |->
                     [status |-> "success", jobs |-> D \cap JobsOf(c),
                      error_message |-> ""]]
       IN  /\ jobs = mark_expired_jobs(up)
           /\ run = [NewRun EXCEPT !.status = INGESTING,
                                   !.total_jobs = Cardinality(D),
                                   !.jobs_expired = Cardinality(ToExpire(up))]
           /\ iw = [IwIngesting EXCEPT
                      !.disc = D,
                      !.expired = Cardinality(ToExpire(up)),
                      !.outs = [c \in Companies |->
                                  [exc |-> "none", jobs |-> D \cap JobsOf(c)]],
                      !.companies = res]
           /\ cq = [c \in Companies |-> to_crawl_messages(Companies, D, c)]
  /\ enabled = Companies
  /\ ab = AbIdle
  /\ aborts = 0
  /\ cw = [w \in CrawlWorkers |-> CwIdle]
  /\ ew = [w \in ExtractWorkers |-> EwIdle]
  /\ exmsgs = 0
  /\ db = DbZero
  /\ call = NoCall
  /\ hist = HistZero

InitReconciled == Reconciled({NoJob, PrevJob}) /\ earlier = NoEarlier

SpecReconciled == InitReconciled /\ [][NextQueues]_vars

InitUnparsed ==
  Reconciled({NoJob, PrevJob, PrevUnparsed}) /\ earlier = NoEarlier

SpecUnparsed == InitUnparsed /\ [][NextQueues]_vars

\* ------------------------------------------------------------------------
\* SpecLeftover: the queue-driven stages on a reconciled run while a crawl
\* or an extract instruction of the owner's earlier, finished run is still
\* in its queue (delayed, or delivered once more) for a posting that run
\* stored.  Such an instruction carries the earlier run's id and is
\* processed by an invocation of its own, run here from its first line to
\* its return in one step.
\* ------------------------------------------------------------------------
\* the postings the earlier run stored
StoredBefore(js) == {j \in Jobs : js[j].exists /\ js[j].raw_s3_url}

\* one instruction of the earlier run is left, a crawl or an extract one
InitLeftover ==
  /\ Reconciled({NoJob, PrevJob})
  /\ \E j \in StoredBefore(jobs) :
       \/ earlier = [run |-> PrevRun, crawl |-> {j}, extract |-> {}]
       \/ earlier = [run |-> PrevRun, crawl |-> {}, extract |-> {j}]

\* the per-status COUNT of the finalizer's queries, for run rid
CountJobsOf(js, rid, st) ==
  Cardinality({j \in Jobs : js[j].exists /\ js[j].run_id = rid
                            /\ js[j].status = st})

\* try_finalize_run for the earlier run: the row of that run afterwards
try_finalize_run(r, js, rid) ==
  IF CountJobsOf(js, rid, PENDING) = 0
    THEN finalize_run(r, CountJobsOf(js, rid, READY),
                      CountJobsOf(js, rid, SKIPPED),
                      CountJobsOf(js, rid, ERROR),
                      CountJobsOf(js, rid, EXPIRED)).row
    ELSE r

\* process_crawl_message for a crawl instruction of the earlier run: the
\* run it loads is the earlier one, the posting is found by its unique key
LeftoverCrawl ==
  /\ \E j \in earlier.crawl, page \in CrawlPages :
       LET out == process_crawl_message(earlier.run, jobs, j, page)
       IN  /\ jobs' = out.jobs
           /\ earlier' = [earlier EXCEPT !.run = out.run, !.crawl = @ \ {j}]
  /\ UNCHANGED <<run, enabled, iw, ab, aborts, cq, cw, ew, exmsgs, hist, db,
                 call>>

\* process_extract_message for an extract instruction of the earlier run:
\* abort check on the earlier run, the posting loaded by id, download and
\* parse (either may fail), persist, try_finalize_run on the earlier run
LeftoverExtract ==
  /\ \E j \in earlier.extract :
       IF run_aborted(earlier.run) \/ ~jobs[j].exists
         THEN /\ jobs' = jobs
              /\ earlier' = [earlier EXCEPT !.extract = @ \ {j}]
         ELSE /\ \/ jobs' = update_job_error(jobs, j,
                                             str_format("S3 download error: ",
                                                        SomeException))
                 \/ jobs' = update_job_error(jobs, j,
                                             str_format("Extraction error: ",
                                                        SomeException))
                 \/ jobs' = update_job_extracted(jobs, j)
              /\ earlier' = [earlier EXCEPT
                               !.run = try_finalize_run(@, jobs', PrevRunId),
                               !.extract = @ \ {j}]
  /\ UNCHANGED <<run, enabled, iw, ab, aborts, cq, cw, ew, exmsgs, hist, db,
                 call>>

NextLeftover == NextQueues \/ LeftoverCrawl \/ LeftoverExtract

SpecLeftover == InitLeftover /\ [][NextLeftover]_vars

\* ------------------------------------------------------------------------
\* SpecUpsert: one call of upsert_jobs_from_job_data, by the run RunId, on
\* a table of rows as earlier runs leave them and a set of discovered
\* postings, both drawn at Init; call keeps the table before the call.
\* ------------------------------------------------------------------------
\* a posting whose fetch failed in the earlier run: nothing stored
PrevCrawlError ==
  [NoJob EXCEPT !.exists = TRUE, !.status = ERROR,
                !.error_message = str_slice(SomeException, ERROR_TEXT_LIMIT)]

\* a posting the earlier run found unchanged
PrevSkipped == [PrevJob EXCEPT !.status = SKIPPED, !.simhash = {0, 1, 2}]

\* a posting the earlier run no longer listed
PrevExpired == [PrevJob EXCEPT !.status = EXPIRED]

StoredRows ==
  {NoJob, PrevJob, PrevUnparsed, PrevCrawlError, PrevSkipped, PrevExpired}

InitUpsert ==
  /\ \E js \in [Jobs -> StoredRows], D \in SUBSET Jobs :
       /\ jobs = js
       /\ call = [js |-> js, D |-> D, done |-> FALSE]
  /\ run = [NewRun EXCEPT !.status = INITIALIZING]
  /\ enabled = Companies
  /\ iw = [IwStart EXCEPT !.pc = "init"]
  /\ ab = AbIdle
  /\ aborts = 0
  /\ cq = [c \in Companies |-> <<>>]
  /\ cw = [w \in CrawlWorkers |-> CwIdle]
  /\ ew = [w \in ExtractWorkers |-> EwIdle]
  /\ exmsgs = 0
  /\ db = DbZero
  /\ earlier = NoEarlier
  /\ hist = HistZero

CallUpsert ==
  /\ ~call.done
  /\ jobs' = upsert_jobs_from_job_data(jobs, call.D)
  /\ call' = [call EXCEPT !.done = TRUE]
  /\ UNCHANGED <<run, enabled, iw, ab, aborts, cq, cw, ew, exmsgs, hist, db,
                 earlier>>

SpecUpsert == InitUpsert /\ [][CallUpsert]_vars

\* ------------------------------------------------------------------------
\* SpecHamming: calls of hamming_distance on two fingerprints drawn at
\* Init, each passed in its signed and in its unsigned form.
\* ------------------------------------------------------------------------
HashValues == 0..(2 ^ HashBits - 1)

NoDistances == [ss |-> 0, uu |-> 0, su |-> 0, us |-> 0]

InitHamming ==
  /\ \E a \in HashValues, b \in HashValues :
       call = [a |-> a, b |-> b, done |-> FALSE, out |-> NoDistances]
  /\ run = NewRun
  /\ jobs = [j \in Jobs |-> NoJob]
  /\ enabled = {}
  /\ iw = IwStart
  /\ ab = AbIdle
  /\ aborts = 0
  /\ cq = [c \in Companies |-> <<>>]
  /\ cw = [w \in CrawlWorkers |-> CwIdle]
  /\ ew = [w \in ExtractWorkers |-> EwIdle]
  /\ exmsgs = 0
  /\ db = DbZero
  /\ earlier = NoEarlier
  /\ hist = HistZero

CallHammingDistance ==
  /\ ~call.done
  /\ call' = [call EXCEPT
        !.done = TRUE,
        !.out = [ss |-> hamming_distance_int(to_signed(call.a),
                                             to_signed(call.b)),
                 uu |-> hamming_distance_int(call.a, call.b),
                 su |-> hamming_distance_int(to_signed(call.a), call.b),
                 us |-> hamming_distance_int(call.a, to_signed(call.b))]]
  /\ UNCHANGED SimilarOthers

SpecHamming == InitHamming /\ [][CallHammingDistance]_vars

\* ------------------------------------------------------------------------
\* FairSpec: Spec with the coordinator's invocation running to its end.
\* ------------------------------------------------------------------------
FairSpec == Spec /\ WF_vars(IngestionWorker)

\* ========================================================================
\* Claims
\* ========================================================================

\* C1: of N concurrent try_finalize_run calls on an ingesting run without
\* pending postings, exactly one makes the transition to finished and
\* returns True; every other call returns False and changes nothing (the
\* run changes only in the step of the call that wins).
C1_ExactlyOneFinalize ==
  /\ [](/\ hist.wins <= 1
        /\ (\A w \in ExtractWorkers : ew[w].pc = "idle") =>
             /\ hist.wins = 1
             /\ hist.losses = MaxExtractWorkers - 1
             /\ run.status = FINISHED)
  /\ [][/\ jobs' = jobs
        /\ run' # run =>
             /\ run.status = INGESTING /\ run'.status = FINISHED
             /\ hist'.wins = hist.wins + 1
             /\ hist'.losses = hist.losses
        /\ hist'.losses # hist.losses => run' = run
       ]_vars

\* C1 witness: all calls have returned, one True and the others False
C1_Witness ==
  /\ \A w \in ExtractWorkers : ew[w].pc = "idle"
  /\ run.status = FINISHED
  /\ hist.wins = 1
  /\ hist.losses >= 1

\* C2: once the stored status of a run is aborted, no later step (of the
\* ingestion worker, a crawl worker, an extract worker or the finalizer)
\* changes it.
C2_AbortedNeverOverwritten ==
  [][run.status = ABORTED => run'.status = ABORTED]_vars

\* C3: a run whose stored status is finished or error never changes its
\* status or its counts again, also when an abort request interleaves with
\* the finalizer; an abort request that finds the run terminal reports
\* success = false and writes nothing.
C3_TerminalImmutable ==
  [][/\ run.status \in {FINISHED, ERROR} =>
          /\ run'.status = run.status
          /\ run'.total_jobs = run.total_jobs
          /\ run'.jobs_ready = run.jobs_ready
          /\ run'.jobs_skipped = run.jobs_skipped
          /\ run'.jobs_expired = run.jobs_expired
          /\ run'.jobs_failed = run.jobs_failed
     /\ (ab.pc = "idle" /\ ab' # ab /\ run.status \in TERMINAL) =>
          /\ ab'.pc = "idle" /\ ab'.success = "false"
          /\ run' = run
    ]_vars

\* C4: each source's failure counter equals the number of crawl
\* instructions of that source that ended in a fetch failure or a storage
\* failure (no increment is lost), and a crawl worker's increment leaves the
\* counters of the other sources unchanged.
C4_AtomicIncrement ==
  /\ [](\A c \in Companies : run.run_metadata[c] = hist.failed[c])
  /\ [][\A w \in CrawlWorkers :
          (cw[w].pc = "loaded" /\ cw'[w] # cw[w]) =>
            \A c \in Companies \ {CompanyOf(cw[w].job)} :
              run'.run_metadata[c] = run.run_metadata[c]
       ]_vars

\* C5: a crawl worker that reads a failure counter of 5 or more for its
\* instruction's source makes no fetch attempt, marks the posting error
\* with the circuit-breaker message and leaves the counter as it is; with a
\* counter below 5 it goes on to the fetch, which is then attempted.
C5_CircuitBreaker ==
  [][\A w \in CrawlWorkers :
       LET j == cw[w].job
           c == CompanyOf(j)
       IN  /\ (cw[w].pc = "recv" /\ cw'[w] # cw[w] /\ run.status # ABORTED) =>
                IF run.run_metadata[c] >= 5
                  THEN /\ cw'[w].pc = "idle"
                       /\ run' = run
                       /\ hist'.fetches = hist.fetches
                       /\ hist'.failed = hist.failed
                       /\ jobs[j].exists =>
                            /\ jobs'[j].status = ERROR
                            /\ jobs'[j].error_message = CIRCUIT_BREAKER_TEXT
                       /\ \A k \in Jobs \ {j} : jobs'[k] = jobs[k]
                  ELSE /\ cw'[w].pc = "loaded"
                       /\ cw'[w].job = j
                       /\ run' = run /\ jobs' = jobs
           /\ (cw[w].pc = "loaded" /\ cw'[w] # cw[w]) =>
                hist'.fetches = hist.fetches + 1
    ]_vars

\* C5 witness: one posting was short-circuited at a counter of 5 without a
\* fetch, while a worker that read a counter of 4 is about to fetch
C5_Witness ==
  /\ \E j \in Jobs :
       /\ jobs[j].status = ERROR
       /\ jobs[j].error_message = CIRCUIT_BREAKER_TEXT
       /\ run.run_metadata[CompanyOf(j)] = 5
       /\ hist.failed[CompanyOf(j)] = 5
  /\ \E w \in CrawlWorkers :
       /\ cw[w].pc = "loaded"
       /\ cw[w].meta[CompanyOf(cw[w].job)] = 4
  /\ hist.fetches = 0

\* C6: within a run no source's failure counter ever decreases, so a
\* breaker that is open (counter >= 5) stays open, whatever the crawl
\* workers of other sources do.
C6_CounterNeverDecreases ==
  [][\A c \in Companies :
       /\ run'.run_metadata[c] >= run.run_metadata[c]
       /\ run.run_metadata[c] >= 5 => run'.run_metadata[c] >= 5
    ]_vars

\* C7: a crawl worker or an extract worker that loads a run whose status
\* is aborted ends its invocation there: no fetch, no write to a posting,
\* no write to the run (no counter increment), no finalization attempt.
C7_AbortedIsNoop ==
  [][/\ \A w \in CrawlWorkers :
          (cw[w].pc = "recv" /\ cw'[w] # cw[w] /\ run.status = ABORTED) =>
            /\ cw'[w] = CwIdle
            /\ run' = run /\ jobs' = jobs
            /\ hist'.fetches = hist.fetches
            /\ hist'.failed = hist.failed
            /\ hist'.wins = hist.wins
            /\ hist'.losses = hist.losses
     /\ \A w \in ExtractWorkers :
          (ew[w].pc = "recv" /\ ew'[w] # ew[w] /\ run.status = ABORTED) =>
            /\ ew'[w] = EwIdle
            /\ run' = run /\ jobs' = jobs
            /\ hist'.fetches = hist.fetches
            /\ hist'.failed = hist.failed
            /\ hist'.wins = hist.wins
            /\ hist'.losses = hist.losses
    ]_vars

\* C7 witness: on an aborted run a crawl instruction was consumed and its
\* posting is still pending, and the one extract instruction delivered was
\* consumed without a finalization attempt
C7_Witness ==
  /\ run.status = ABORTED
  /\ hist.noops >= 2
  /\ \A w \in CrawlWorkers : cw[w].pc = "idle"
  /\ \E j \in Jobs : jobs[j].status = PENDING /\ cq[CompanyOf(j)] = <<>>
  /\ exmsgs = 1
  /\ \A w \in ExtractWorkers : ew[w] = EwIdle
  /\ hist.wins = 0 /\ hist.losses = 0

\* C8: when the abort request has set the run to aborted before process_run
\* writes ingesting, process_run does not write ingesting and does not
\* enter the ingestion phase.
C8_AbortBeforeIngesting ==
  [][(/\ ab.success = "true"
      /\ iw.pc \notin {"ing_start", "batch", "return", "done"}) =>
       /\ run'.status # INGESTING
       /\ iw'.pc \notin {"ing_start", "batch"}
    ]_vars

C10_CountsMatch ==
  /\ [](hist.wins <= 1)
  /\ [][(run.status = INGESTING /\ run'.status = FINISHED) =>
          /\ run'.jobs_ready = CountJobs(jobs', READY)
          /\ run'.jobs_skipped = CountJobs(jobs', SKIPPED)
          /\ run'.jobs_failed = CountJobs(jobs', ERROR)
       ]_vars

\* C11: processing a crawl instruction a second time, for the same run and
\* posting and with the same content fetched, leaves the posting's status,
\* fingerprint and raw-content pointer and the run's failure counters as
\* the first processing left them.
C11_RedeliveryIdempotent ==
  [][(cw[1].pc = "delivered" /\ crawl_with_retry(hist.page.attempts).ok
        /\ cw'[1].pc = "idle") =>
       LET j == cw[1].job
       IN  /\ jobs'[j].status = jobs[j].status
           /\ jobs'[j].simhash = jobs[j].simhash
           /\ jobs'[j].raw_s3_url = jobs[j].raw_s3_url
           /\ run'.run_metadata = run.run_metadata
    ]_vars

\* C12: for a company whose discovery succeeded, with A its stored ready
\* postings and B the postings discovered now, run_initialization_phase
\* leaves every posting of A \cap B pending with the current run id,
\* every posting of B \ A a row that is pending with the current run id,
\* and every posting of A \ B expired with the run id it had.
C12_ReconciliationSets ==
  [][(iw.pc = "init" /\ iw'.pc = "write_counts") =>
       \A c \in iw'.ok :
         LET A == {j \in JobsOf(c) : jobs[j].exists /\ jobs[j].status = READY}
             B == iw'.disc \cap JobsOf(c)
         IN  /\ \A j \in A \cap B :
                  /\ jobs'[j].exists
                  /\ jobs'[j].status = PENDING
                  /\ jobs'[j].run_id = RunId
             /\ \A j \in B \ A :
                  /\ jobs'[j].exists
                  /\ jobs'[j].status = PENDING
                  /\ jobs'[j].run_id = RunId
             /\ \A j \in A \ B :
                  /\ jobs'[j].exists
                  /\ jobs'[j].status = EXPIRED
                  /\ jobs'[j].run_id = jobs[j].run_id
                  /\ jobs'[j].run_id # RunId
    ]_vars

\* the initialization phase has re-queued a stored posting of one company
\* and expired a stored posting that another company, discovered
\* successfully, no longer lists
C12_Witness ==
  /\ iw.pc = "write_counts"
  /\ iw.ok = Companies
  /\ \E j \in iw.disc :
       /\ jobs[j].description
       /\ jobs[j].status = PENDING /\ jobs[j].run_id = RunId
  /\ \E j \in Jobs \ iw.disc :
       /\ jobs[j].status = EXPIRED /\ jobs[j].run_id = PrevRunId

\* C13: over any sequence of runs and upserts the jobs table holds at most
\* one row per natural key, no step adds a row for a key that has one, and
\* no step removes a row.
C13_OneRowPerKey ==
  /\ [](\A r1, r2 \in db.rows : r1.key = r2.key => r1 = r2)
  /\ [][\A r \in db.rows :
          \E q \in db'.rows : q.id = r.id /\ q.key = r.key
                               /\ q.created = r.created
       ]_vars

\* the latest run has listed every posting again, one of them inserted by
\* the first run, and the upsert was repeated within a run
C13_Witness ==
  /\ db.run_id = MaxRuns
  /\ Cardinality(db.rows) = MaxJobs
  /\ \A r \in db.rows : r.run_id = MaxRuns
  /\ \E r \in db.rows : r.created = 1

\* C14: when the discovery of an enabled company raises, the discovery
\* call still yields one result per enabled company: an error result with
\* a message and no postings for the company that raised, and for every
\* other company the result it yields when no company raises; the
\* initialization phase then upserts the postings of the companies that
\* succeeded and records the company that raised with status error.
C14_DiscoveryIsolated ==
  [][(iw.pc = "init" /\ iw'.pc = "write_counts") =>
       LET outs == iw'.outs
           res == run_extractors_async(enabled, outs)
           AllFine == {o \in [Companies -> UNION {Outcomes(c) : c \in Companies}] :
                         \A c \in Companies :
                           o[c] \in Outcomes(c) /\ o[c].exc = "none"}
       IN  /\ DOMAIN res = enabled
           /\ \A c \in enabled :
                IF outs[c].exc # "none"
                  THEN /\ res[c].status = "error"
                       /\ res[c].error_message # ""
                       /\ res[c].jobs = {}
                       /\ iw'.companies[c].status = "error"
                       /\ iw'.companies[c].error_message # ""
                       /\ \A j \in JobsOf(c) :
                            jobs'[j].exists = jobs[j].exists
                  ELSE /\ \A o \in AllFine :
                            o[c] = outs[c] =>
                              run_extractors_async(enabled, o)[c] = res[c]
                       /\ res[c].status = "success"
                       /\ res[c].jobs = outs[c].jobs
                       /\ iw'.companies[c].status = "success"
                       /\ \A j \in outs[c].jobs :
                            /\ jobs'[j].exists
                            /\ jobs'[j].status = PENDING
                            /\ jobs'[j].run_id = RunId
    ]_vars

\* the discovery of company B has timed out, company A's has returned its
\* postings, and the initialization phase has stored them
C14_Witness ==
  /\ iw.pc = "write_counts"
  /\ iw.outs["B"].exc = "timeout"
  /\ iw.companies["B"].status = "error"
  /\ iw.outs["A"].exc = "none" /\ iw.outs["A"].jobs = JobsOf("A")
  /\ \A j \in JobsOf("A") : jobs[j].status = PENDING /\ jobs[j].run_id = RunId

\* the discovery of company A has succeeded and that of company B has
\* timed out
PartialFailure ==
  /\ iw.outs["A"].exc = "none"
  /\ iw.outs["B"].exc = "timeout"

\* C15: in a run where the discovery of company A succeeds with k postings
\* and that of company B times out, the run is never in status error; the
\* coordinator takes it to finished unless an abort is requested; and when
\* it finishes, total_jobs is k and jobs_ready, jobs_skipped and
\* jobs_failed count A's k postings by their status and nothing else.
C15_PartialFailureFinishes ==
  /\ [](PartialFailure => run.status # ERROR)
  /\ [][(PartialFailure /\ iw.pc = "batch" /\ iw'.pc = "return") =>
          LET K == iw.outs["A"].jobs
          IN  /\ run'.status = FINISHED
              /\ run'.total_jobs = Cardinality(K)
              /\ run'.jobs_ready =
                   Cardinality({j \in K : jobs'[j].status = READY})
              /\ run'.jobs_skipped =
                   Cardinality({j \in K : jobs'[j].status = SKIPPED})
              /\ run'.jobs_failed =
                   Cardinality({j \in K : jobs'[j].status = ERROR})
              /\ \A j \in JobsOf("B") :
                   jobs'[j].status \notin {READY, SKIPPED, ERROR, PENDING}
       ]_vars
  /\ PartialFailure ~> (run.status = FINISHED \/ aborts > 0)

\* the run has finished with company A's postings only, after company B's
\* discovery timed out; B's stored posting is expired
C15_Witness ==
  /\ iw.pc = "return"
  /\ PartialFailure
  /\ iw.outs["A"].jobs = JobsOf("A")
  /\ run.status = FINISHED
  /\ run.total_jobs = Cardinality(JobsOf("A"))
  /\ aborts = 0
  /\ \E j \in JobsOf("B") : jobs[j].status = EXPIRED

\* every posting of the run was fetched with new content and stored, then
\* parsed, no fetch, save, download or parse has failed, no abort was
\* requested, and the queues and the workers are at rest
HappyPathEnd ==
  /\ aborts = 0
  /\ \A c \in Companies : cq[c] = <<>> /\ hist.failed[c] = 0
  /\ \A w \in CrawlWorkers : cw[w].pc = "idle"
  /\ \A w \in ExtractWorkers : ew[w].pc = "idle"
  /\ hist.fetches = MaxJobs
  /\ \A j \in Jobs :
       /\ jobs[j].status = READY
       /\ jobs[j].simhash \in Fingerprints
       /\ jobs[j].raw_s3_url
       /\ jobs[j].description
       /\ jobs[j].error_message = NoText

Compared(p) ==
  /\ crawl_with_retry(p.attempts).ok
  /\ \/ (cw[1].pc = "idle" /\ cw'[1].pc = "delivered")
     \/ (cw[1].pc = "delivered" /\ cw'[1].pc = "idle")
  /\ ~run_aborted(run)
  /\ LET j == IF cw[1].pc = "idle" THEN cw'[1].job ELSE cw[1].job
     IN  /\ ~circuit_open(run.run_metadata[CompanyOf(j)])
         /\ jobs[j].exists

\* C17: when the fingerprint of the fetched page is within Hamming
\* distance 3 of the posting's stored fingerprint (distance 0 included),
\* the crawl worker marks the posting skipped, stores the new fingerprint,
\* leaves the raw-content pointer and the parsed description as they are,
\* changes nothing in the run and hands nothing to the extract stage.
C17_UnchangedSkipped ==
  [][\A p \in CrawlPages :
       LET j == IF cw[1].pc = "idle" THEN cw'[1].job ELSE cw[1].job
       IN  (/\ p = (IF cw[1].pc = "idle" THEN hist'.page ELSE hist.page)
            /\ Compared(p)
            /\ jobs[j].simhash # NoHash
            /\ hamming_distance(jobs[j].simhash, p.h) <= 3) =>
             /\ jobs'[j].status = SKIPPED
             /\ jobs'[j].simhash = p.h
             /\ jobs'[j].raw_s3_url = jobs[j].raw_s3_url
             /\ jobs'[j].description = jobs[j].description
             /\ run' = run
             /\ exmsgs' = exmsgs
    ]_vars

\* a crawl instruction was delivered twice with the same page: the first
\* delivery stored the page's fingerprint, the second found the content
\* identical and left the posting skipped
C17_Witness ==
  /\ cw[1].pc = "idle"
  /\ \E j \in Jobs :
       /\ jobs[j].status = SKIPPED
       /\ jobs[j].simhash \in Fingerprints
       /\ jobs[j].raw_s3_url
       /\ ~jobs[j].description

\* C18: when the owner has no enabled company as the coordinator reads
\* the settings, process_run sets the run to error with an error text and
\* a finish time and returns error without discovery or reconciliation;
\* no posting is inserted, reset to pending or marked expired, in that
\* step or later.
C18_NoEnabledSource ==
  /\ [][(iw.pc = "settings" /\ iw' # iw /\ enabled = {}) =>
          /\ run'.status = ERROR
          /\ run'.error_message
          /\ run'.finished_at
          /\ jobs' = jobs
          /\ iw'.pc = "done" /\ iw'.result = ERROR
          /\ \A c \in Companies : iw'.outs[c] = NoOutcome
       ]_vars
  /\ [](enabled = {} => \A j \in Jobs : jobs[j] \in {NoJob, PrevJob})
  /\ [][(enabled = {} /\ iw.pc = "done") => (iw' = iw /\ jobs' = jobs)]_vars

\* the coordinator has returned error for a run of an owner without
\* enabled company; the owner's stored posting is as it was
C18_Witness ==
  /\ enabled = {}
  /\ iw.pc = "done" /\ iw.result = ERROR
  /\ run.status = ERROR /\ run.finished_at
  /\ \E j \in Jobs : jobs[j] = PrevJob

\* C19: when an abort is committed while the coordinator is in its
\* ingestion phase, process_run returns status aborted, not finished.
C19_AbortDuringIngestion ==
  [][(iw.pc = "return" /\ iw'.pc = "done"
        /\ hist.abort_at \in {"ing_start", "batch"}) =>
       iw'.result = ABORTED
    ]_vars

\* C20: for fingerprints h1, h2 and a threshold t >= 0, is_similar(h1, h2,
\* t) is true exactly when the two differ in at most t bit positions, and
\* it is false when either argument is None, both being None included.
C20_ThresholdSemantics ==
  call.done =>
    IF call.h1 = NoHash \/ call.h2 = NoHash
      THEN call.out = FALSE
      ELSE call.out =
             (Cardinality({i \in 0..(HashBits - 1) :
                            (i \in call.h1) # (i \in call.h2)}) <= call.t)

\* a call has returned true for two different fingerprints whose distance
\* equals the threshold
C20_Witness ==
  /\ call.done /\ call.out
  /\ call.h1 # NoHash /\ call.h2 # NoHash /\ call.h1 # call.h2
  /\ hamming_distance(call.h1, call.h2) = call.t

\* C21: filter_by_title accepts a title exactly when the title is not empty,
\* no exclude term occurs in it and the include list is None or one of its
\* terms occurs in it, occurrence being that of a contiguous run of
\* characters compared without regard to case; a title in which both an
\* exclude term and an include term occur is rejected.
SameLetter(a, b) == a = b \/ {a, b} = {"a", "A"}

Occurs(t, s) ==
  \E i \in 0..Len(s) :
    /\ i + Len(t) <= Len(s)
    /\ \A k \in 1..Len(t) : SameLetter(t[k], s[i + k])

C21_TitleFilter ==
  call.done =>
    LET title == call.titles[1]
        inc == call.include_terms
        exc == call.exclude_terms
    IN  /\ Len(call.out) = 1
        /\ call.out[1] =
             (/\ title # <<>>
              /\ \A k \in 1..Len(exc.terms) : ~Occurs(exc.terms[k], title)
              /\ (inc.null \/ \E k \in 1..Len(inc.terms) :
                                Occurs(inc.terms[k], title)))

\* a title was rejected in which an include term and an exclude term both
\* occur, each in the other case than the title has it
C21_Witness ==
  /\ call.done /\ call.out = <<FALSE>>
  /\ call.titles = << <<"a", "b">> >>
  /\ call.include_terms = [null |-> FALSE, terms |-> << <<"A">> >>]
  /\ call.exclude_terms = [null |-> FALSE, terms |-> << <<"A", "b">> >>]

\* C22: when the coordinator passes from initializing to ingesting and
\* starts its ingestion phase, the crawl queue of every company holds
\* exactly one instruction for each posting this run upserted for that
\* company, in discovery order, and none for a company whose discovery
\* failed.
C22_CrawlInstructionsEmitted ==
  [][(iw.pc = "ing_start" /\ iw'.pc = "batch") =>
       \A c \in Companies :
         LET upserted == {j \in JobsOf(c) :
                           jobs[j].exists /\ jobs[j].run_id = RunId}
         IN  /\ Len(cq'[c]) = Cardinality(upserted)
             /\ SeqToSet(cq'[c]) = upserted
             /\ \A i \in 1..(Len(cq'[c]) - 1) : cq'[c][i] < cq'[c][i + 1]
    ]_vars

Multiplicity(toks, t) == Cardinality({k \in 1..Len(toks) : toks[k] = t})

RECURSIVE Total(_, _)
Total(toks, T) ==
  IF T = {} THEN 0
  ELSE LET t == CHOOSE x \in T : TRUE
       IN  Multiplicity(toks, t) + Total(toks, T \ {t})

C29_BitRule ==
  call.done =>
    LET toks == tokenize(call.content)
        pattern == call.out % (2 ^ HashBits)
        With(i) == {t \in SeqToSet(toks) : (call.md5[t] \div (2 ^ i)) % 2 = 1}
    IN  /\ toks = <<>> => call.out = 0
        /\ \A i \in 0..(HashBits - 1) :
             ((pattern \div (2 ^ i)) % 2 = 1) <=>
               (Total(toks, With(i)) > Total(toks, SeqToSet(toks) \ With(i)))

\* a call has returned for a content of three tokens, one of them twice
\* and in both cases, a fingerprint with a bit that only the repeated
\* token's digest has
C29_Witness ==
  /\ call.done
  /\ call.content = <<"a", " ", "b", " ", "A">>
  /\ call.md5[<<"a">>] = 1 /\ call.md5[<<"b">>] = 2
  /\ call.out = 1

\* C24: try_finalize_run changes a run to finished only in a state where no
\* posting of the run is pending; a call of try_finalize_run that makes its
\* test while a posting of the run is pending, alone or beside other
\* calls, returns False and leaves the run's row as it was.
C24_FinalizeOnlyWhenComplete ==
  /\ [][(run.status # FINISHED /\ run'.status = FINISHED) =>
          CountJobs(jobs, PENDING) = 0]_vars
  /\ [][\A w \in ExtractWorkers :
          (/\ ew[w].pc = "fin_check" /\ ew'[w].pc # "fin_check"
           /\ CountJobs(jobs, PENDING) > 0) =>
            (/\ run' = run
             /\ ew'[w].pc = "idle"
             /\ hist'.wins = hist.wins
             /\ hist'.losses = hist.losses + 1)]_vars

\* a call of try_finalize_run has returned False and another is about
\* to make its test, while the run is ingesting and a posting is pending
C24_Witness ==
  /\ run.status = INGESTING
  /\ CountJobs(jobs, PENDING) > 0
  /\ hist.losses = 1 /\ hist.wins = 0
  /\ \E w \in ExtractWorkers : ew[w].pc = "fin_check"

\* C25: process_run writes the status initializing only to a run whose
\* status is pending; invoked for a run in any other status it changes
\* neither the run nor any posting.
C25_InitializingOnlyFromPending ==
  [][(run' # run \/ jobs' # jobs) =>
       (run.status = PENDING \/ iw.pc \notin {"start", "set_init"})]_vars

\* a delivery of a crawl instruction that gets as far as the fetch: the
\* run is not aborted and the breaker of the posting's company is closed
Fetching ==
  /\ cw[1].pc = "idle" /\ cw'[1].pc = "delivered"
  /\ run.status # ABORTED
  /\ run.run_metadata[CompanyOf(cw'[1].job)] < 5

\* C26: for one crawl instruction the crawl worker calls the fetch at most
\* 3 times and stops at the first success; when all 3 attempts fail it
\* adds one to the failure counter of the posting's company (not one per
\* attempt), marks the posting error with the message of the last failure
\* (its first 500 characters) and makes no call to storage.
C26_BoundedRetry ==
  [][Fetching =>
         LET j == cw'[1].job
             p == hist'.page
             ok == {k \in 1..3 : p.attempts[k] = NoText}
             c == CompanyOf(j)
         IN  /\ cw'[1].calls <= 3
             /\ ok # {} =>
                  /\ cw'[1].calls \in ok
                  /\ \A k \in ok : cw'[1].calls <= k
             /\ ok = {} =>
                  /\ cw'[1].calls = 3
                  /\ cw'[1].saves = 0
                  /\ run' = [run EXCEPT !.run_metadata[c] = @ + 1]
                  /\ jobs' = [jobs EXCEPT
                               ![j].status = ERROR,
                               ![j].error_message =
                                 [txt |-> p.attempts[3].txt,
                                  len |-> IF p.attempts[3].len > 500 THEN 500
                                          ELSE p.attempts[3].len]]
    ]_vars

\* three fetches failed, the last with a message longer than the first's,
\* and the posting carries the last message
C26_Witness ==
  /\ cw[1].pc = "delivered" /\ cw[1].calls = 3
  /\ hist.page.attempts[1].len = 501 /\ hist.page.attempts[3].len = 1
  /\ jobs[cw[1].job].status = ERROR
  /\ jobs[cw[1].job].error_message = [txt |-> "e3", len |-> 1]
  /\ run.run_metadata[CompanyOf(cw[1].job)] = 1

\* C27: when the save of the raw content fails, the crawl worker adds
\* exactly one to the failure counter of the posting's company, marks the
\* posting error, and leaves the posting's stored fingerprint and
\* raw-content pointer as they were before the instruction.
C27_StorageFailure ==
  [][(/\ Fetching
      /\ \E k \in 1..3 : hist'.page.attempts[k] = NoText
      /\ jobs[cw'[1].job].exists
      /\ \/ jobs[cw'[1].job].simhash = NoHash
         \/ hamming_distance(jobs[cw'[1].job].simhash, hist'.page.h) > 3
      /\ hist'.page.s3 # NoText) =>
       LET j == cw'[1].job
           c == CompanyOf(j)
       IN  /\ cw'[1].saves = 1
           /\ run' = [run EXCEPT !.run_metadata[c] = @ + 1]
           /\ jobs'[j].status = ERROR
           /\ jobs'[j].error_message # NoText
           /\ jobs'[j].simhash = jobs[j].simhash
           /\ jobs'[j].raw_s3_url = jobs[j].raw_s3_url
           /\ \A i \in Jobs \ {j} : jobs'[i] = jobs[i]
    ]_vars

\* the save failed for a posting stored by an earlier run: the posting is
\* in error and keeps the fingerprint and the pointer it had
C27_Witness ==
  /\ cw[1].pc = "delivered" /\ cw[1].saves = 1
  /\ hist.page.s3 # NoText
  /\ jobs[cw[1].job].status = ERROR
  /\ jobs[cw[1].job].simhash = {}
  /\ jobs[cw[1].job].raw_s3_url
  /\ run.run_metadata[CompanyOf(cw[1].job)] = 1

\* C30: every error text a worker has persisted on a posting is at most
\* 500 characters long.
C30_ErrorTextTruncated ==
  \A j \in Jobs : jobs[j].error_message.len <= 500

\* C28: for an extract instruction whose run is not aborted and whose
\* posting exists, the extract worker leaves the posting ready with the
\* parsed description persisted, or error with an error text, and then
\* calls try_finalize_run, once: the call starts after the status write,
\* it is the only way from the write back to rest, and every return of it
\* is one return, True or False.
C28_ExtractThenFinalize ==
  [][\A w \in ExtractWorkers :
       LET j == ew[w].job
           Calling(pc) == pc \in {"fin_check", "fin_count", "fin_update"}
       IN  /\ (ew[w].pc = "recv" /\ ew'[w].pc # "recv"
               /\ run.status # ABORTED /\ jobs[j].exists) =>
                /\ ew'[w].pc = "fin_check"
                /\ \/ /\ jobs'[j].status = READY
                      /\ jobs'[j].description
                   \/ /\ jobs'[j].status = ERROR
                      /\ jobs'[j].error_message # NoText
                      /\ jobs'[j].description = jobs[j].description
                /\ \A i \in Jobs \ {j} : jobs'[i] = jobs[i]
                /\ hist'.wins = hist.wins /\ hist'.losses = hist.losses
           /\ (ew'[w].pc = "fin_check" /\ ew[w].pc # "fin_check") =>
                ew[w].pc = "recv"
           /\ (Calling(ew[w].pc) /\ ~Calling(ew'[w].pc)) =>
                /\ ew'[w].pc = "idle"
                /\ hist'.wins + hist'.losses = hist.wins + hist.losses + 1
           /\ (Calling(ew[w].pc) /\ Calling(ew'[w].pc) /\ ew'[w] # ew[w]) =>
                /\ jobs' = jobs
                /\ hist'.wins = hist.wins /\ hist'.losses = hist.losses
    ]_vars

\* a parse failure has left a posting in error with its text, and the
\* worker is about to call try_finalize_run, which will return True
C28_Witness ==
  /\ \E w \in ExtractWorkers : ew[w].pc = "fin_check"
  /\ \E j \in Jobs :
       /\ jobs[j].status = ERROR
       /\ jobs[j].error_message = literal("Extraction error: e")
  /\ CountJobs(jobs, PENDING) = 0
  /\ run.status = INGESTING

\* the coordinator is past the initialization phase, in which no enabled
\* source returned a posting (each returned an empty list or failed)
ZeroDiscovery ==
  /\ iw.pc \in {"write_counts", "refresh", "set_ingesting", "ing_start",
                "batch", "return"}
  /\ \A c \in Companies : iw.outs[c].jobs = {}

\* C31: when discovery yields no posting at all, the coordinator itself
\* finishes the run: the step that ends the ingestion phase writes status
\* finished with jobs_ready = jobs_skipped = jobs_failed = 0 on a run whose
\* total_jobs is 0, no batch of postings has been processed, no crawl
\* instruction is on the queue and no worker has taken a step; and the
\* coordinator always gets to that step, unless the run is found aborted at
\* the end of initialization.
C31_ZeroDiscoveryFinishes ==
  /\ [][ZeroDiscovery /\ iw.pc = "batch" /\ iw'.pc = "return"
          => /\ run'.status = FINISHED
             /\ run'.jobs_ready = 0
             /\ run'.jobs_skipped = 0
             /\ run'.jobs_failed = 0
             /\ run'.total_jobs = 0
             /\ iw.batch = 0
             /\ \A c \in Companies : cq'[c] = <<>>
             /\ \A w \in CrawlWorkers : cw'[w] = CwIdle
             /\ \A w \in ExtractWorkers : ew'[w] = EwIdle]_vars
  /\ [][ZeroDiscovery /\ ZeroDiscovery' => cq' = cq /\ jobs' = jobs]_vars
  /\ (ZeroDiscovery
        ~> (iw.pc = "return" \/ (iw.pc = "done" /\ iw.result = ABORTED)))

\* a run with postings of an earlier run in the table, none discovered,
\* finished by the coordinator with zero counts
C31_Witness ==
  /\ ZeroDiscovery
  /\ iw.pc = "return"
  /\ \E c \in Companies : iw.outs[c].exc # "none"
  /\ \E j \in Jobs : jobs[j].exists
  /\ run.status = FINISHED
  /\ run.jobs_ready = 0
  /\ run.total_jobs = 0

\* C32: the expired count stored on a finished run is the number of
\* postings that the run's reconciliation marked expired, as recorded on
\* the run at the end of initialization.
C32_ExpiredCountKept ==
  run.status = FINISHED => run.jobs_expired = iw.expired

\* C33: a posting is skipped only if its content was parsed before: in
\* every reachable state each skipped posting holds the description and
\* requirements that an earlier successful extract persisted.
C33_SkippedWasParsed ==
  \A j \in Jobs :
    (jobs[j].exists /\ jobs[j].status = SKIPPED) => jobs[j].description

\* the counts on the run are the numbers of its postings per status
CountsAgree(r, js) ==
  /\ r.jobs_ready = CountJobs(js, READY)
  /\ r.jobs_skipped = CountJobs(js, SKIPPED)
  /\ r.jobs_failed = CountJobs(js, ERROR)

\* C34: once the run is finished no posting of it is still awaiting
\* parsing: no step of an extract worker taken on a finished run changes
\* the status of a posting, and counts that agree with the statuses of the
\* run's postings on a finished run agree with them after every later
\* step.
C34_NothingParsedAfterFinished ==
  /\ [][(run.status = FINISHED /\ \E w \in ExtractWorkers : ew'[w] # ew[w])
          => \A j \in Jobs : jobs'[j].status = jobs[j].status]_vars
  /\ [][(run.status = FINISHED /\ run'.status = FINISHED
           /\ CountsAgree(run, jobs))
          => CountsAgree(run', jobs')]_vars

\* C35: run isolation.  A crawl or extract instruction left over from the
\* earlier run changes neither the status, the fingerprint nor the stored
\* content of a posting whose run id is the later run's; and an
\* instruction of the later run changes only postings whose run id is the
\* later run's.
C35_RunIsolation ==
  /\ [][earlier' # earlier
          => \A j \in Jobs :
               jobs[j].run_id = RunId
                 => /\ jobs'[j].status = jobs[j].status
                    /\ jobs'[j].simhash = jobs[j].simhash
                    /\ jobs'[j].raw_s3_url = jobs[j].raw_s3_url
                    /\ jobs'[j].description = jobs[j].description]_vars
  /\ [][earlier' = earlier
          => \A j \in Jobs :
               jobs'[j] # jobs[j] => jobs[j].run_id = RunId]_vars

C37_ExpireOnlyDiscoveredSources ==
  [][iw.pc = "init" /\ iw'.pc = "write_counts"
       => \A j \in Jobs :
            /\ (jobs'[j].status = EXPIRED /\ jobs[j].status # EXPIRED)
                 => (CompanyOf(j) \in iw'.ok /\ j \notin iw'.disc)
            /\ (jobs[j].exists /\ CompanyOf(j) \notin iw'.ok)
                 => jobs'[j].status = jobs[j].status]_vars

\* C38: the upsert of a posting that already exists sets its run id to the
\* run's, its status to pending and clears its error text, and leaves its
\* fingerprint, description and raw-content pointer as stored, so that the
\* similarity test of the new run gives what it gives on the fingerprint the
\* earlier run stored; a row that is not upserted is unchanged.
C38_UpsertFrame ==
  call.done =>
    \A j \in Jobs :
      /\ (j \in call.D /\ call.js[j].exists)
           => /\ jobs[j].exists
              /\ jobs[j].run_id = RunId
              /\ jobs[j].status = PENDING
              /\ jobs[j].error_message = NoText
              /\ jobs[j].simhash = call.js[j].simhash
              /\ jobs[j].description = call.js[j].description
              /\ jobs[j].raw_s3_url = call.js[j].raw_s3_url
              /\ \A h \in Fingerprints :
                   is_similar(jobs[j].simhash, h, SIMILAR_THRESHOLD)
                     = is_similar(call.js[j].simhash, h, SIMILAR_THRESHOLD)
      /\ j \notin call.D => jobs[j] = call.js[j]

\* a posting stored and not parsed by the earlier run, in error with an
\* error text, has been upserted: pending, text cleared, fingerprint and
\* raw content kept
C38_Witness ==
  /\ call.done
  /\ \E j \in call.D :
       /\ call.js[j] = PrevUnparsed
       /\ jobs[j].status = PENDING
       /\ jobs[j].error_message = NoText
       /\ jobs[j].simhash = PrevUnparsed.simhash
       /\ jobs[j].raw_s3_url

\* the set of the positions of the one bits of a fingerprint
BitsOf(h) == {i \in 0..(HashBits - 1) : bit_set(h, i)}

\* C39: hamming_distance does not depend on the signed or unsigned form of
\* its arguments: for all fingerprints a and b the distance of their
\* signed forms, of their unsigned forms and of one signed and one
\* unsigned form is the number of bit positions in which a and b differ, a
\* number from 0 to the width of a fingerprint.
C39_HammingSignIndependent ==
  call.done =>
    LET n == Cardinality({i \in 0..(HashBits - 1) :
                            bit_set(call.a, i) # bit_set(call.b, i)})
    IN  /\ call.out.ss = n
        /\ call.out.uu = n
        /\ call.out.su = n
        /\ call.out.us = n
        /\ n \in 0..HashBits
        /\ n = hamming_distance(BitsOf(call.a), BitsOf(call.b))

\* the distance between the fingerprint with every bit set, negative in
\* its signed form, and fingerprint 0
C39_Witness ==
  /\ call.done
  /\ call.a = 2 ^ HashBits - 1
  /\ to_signed(call.a) = 0 - 1
  /\ call.b = 0
  /\ call.out.ss = HashBits
  /\ call.out.su = HashBits

====
